---- MODULE Spec2Model ----
(***************************************************************************)
(* State-machine model of the WhatsApp expense tracker: webhook ingestion  *)
(* (GET handshake, signed POST delivery), the per-message command          *)
(* dispatcher, the validator, the AI extraction adapters and the           *)
(* repository.  Every awaited call of the handlers is one step, so that    *)
(* deliveries in flight interleave at the suspension points of the code.   *)
(***************************************************************************)
EXTENDS Integers, Sequences, FiniteSets, TLC

VARIABLES
    env,        \* process.env, fixed when the process starts
    load,       \* the class of traffic this deployment receives
    store,      \* the build of services/database.js deployed: "postgres" or "sqlite"
    proc,       \* "starting", "listening" or "exited"
    users,      \* users table: the phones that have a row
    expenses,   \* expenses table: a set of rows
    budgets,    \* budgets table: a set of rows
    nextId,     \* the expenses id sequence
    dl,         \* the webhook deliveries in flight, by slot
    hs,         \* the last handshake and the response it got
    unit        \* the last direct call of a Validator function and its outcome

vars == <<env, load, store, proc, users, expenses, budgets, nextId, dl, hs, unit>>

(***************************************************************************)
(* JavaScript values and string primitives                                 *)
(***************************************************************************)

\* a missing header, query parameter or environment variable
NoVal == "<undefined>"

\* tagged JavaScript values: number, NaN, undefined/null, string
Num(n) == [k |-> "num", n |-> n]
NaNv == [k |-> "nan"]
Undef == [k |-> "undef"]
Str(s) == [k |-> "str", s |-> s]

StartsWith(s, p) == Len(s) >= Len(p) /\ SubSeq(s, 1, Len(p)) = p

Includes(s, p) == \E i \in 1..(Len(s) - Len(p) + 1) : SubSeq(s, i, i + Len(p) - 1) = p

LowerChar(c) ==
    CASE c = "A" -> "a" [] c = "B" -> "b" [] c = "C" -> "c" [] c = "D" -> "d"
      [] c = "E" -> "e" [] c = "F" -> "f" [] c = "G" -> "g" [] c = "H" -> "h"
      [] c = "I" -> "i" [] c = "J" -> "j" [] c = "K" -> "k" [] c = "L" -> "l"
      [] c = "M" -> "m" [] c = "N" -> "n" [] c = "O" -> "o" [] c = "P" -> "p"
      [] c = "Q" -> "q" [] c = "R" -> "r" [] c = "S" -> "s" [] c = "T" -> "t"
      [] c = "U" -> "u" [] c = "V" -> "v" [] c = "W" -> "w" [] c = "X" -> "x"
      [] c = "Y" -> "y" [] c = "Z" -> "z" [] OTHER -> c

RECURSIVE ToLowerCase(_)
ToLowerCase(s) == IF Len(s) = 0 THEN "" ELSE LowerChar(Head(s)) \o ToLowerCase(Tail(s))

RECURSIVE TrimStart(_)
TrimStart(s) == IF Len(s) > 0 /\ Head(s) = " " THEN TrimStart(Tail(s)) ELSE s

RECURSIVE TrimEnd(_)
TrimEnd(s) ==
    IF Len(s) > 0 /\ SubSeq(s, Len(s), Len(s)) = " "
    THEN TrimEnd(SubSeq(s, 1, Len(s) - 1)) ELSE s

Trim(s) == TrimEnd(TrimStart(s))

\* s.slice(n): the characters after the first n
Slice(s, n) == IF n >= Len(s) THEN "" ELSE SubSeq(s, n + 1, Len(s))

\* index of the first occurrence of the one-character separator at or after
\* position i, 0 if none
IndexOfFrom(s, c, i) ==
    LET hits == {j \in i..Len(s) : SubSeq(s, j, j) = c}
    IN IF hits = {} THEN 0 ELSE CHOOSE j \in hits : \A h \in hits : j <= h

\* s.split(c) for a one-character separator
RECURSIVE Split(_, _)
Split(s, c) ==
    LET i == IndexOfFrom(s, c, 1)
    IN IF i = 0 THEN <<s>>
       ELSE <<SubSeq(s, 1, i - 1)>> \o Split(Slice(s, i), c)

\* parts[i] of an array of strings: undefined past the end
PartAt(parts, i) == IF i + 1 <= Len(parts) THEN Str(parts[i + 1]) ELSE Undef

DigitVal(c) ==
    CASE c = "0" -> 0 [] c = "1" -> 1 [] c = "2" -> 2 [] c = "3" -> 3 [] c = "4" -> 4
      [] c = "5" -> 5 [] c = "6" -> 6 [] c = "7" -> 7 [] c = "8" -> 8 [] c = "9" -> 9
      [] OTHER -> -1

\* the value of the longest prefix of decimal digits; -1 when there is none
RECURSIVE DigitsPrefix(_, _)
DigitsPrefix(s, acc) ==
    IF Len(s) = 0 \/ DigitVal(Head(s)) < 0 THEN acc
    ELSE DigitsPrefix(Tail(s), (IF acc < 0 THEN 0 ELSE acc) * 10 + DigitVal(Head(s)))

\* parseFloat on a string token (integers, optional sign); NaN without a digit
ParseFloatStr(s) ==
    LET t == TrimStart(s)
        neg == Len(t) > 0 /\ Head(t) = "-"
        body == IF Len(t) > 0 /\ (Head(t) = "-" \/ Head(t) = "+") THEN Tail(t) ELSE t
        v == DigitsPrefix(body, -1)
    IN IF v < 0 THEN NaNv ELSE Num(IF neg THEN 0 - v ELSE v)

\* parseFloat on any value: a number is itself, undefined is NaN
ParseFloat(x) ==
    IF x.k \in {"num", "inf"} THEN x
    ELSE IF x.k = "str" THEN ParseFloatStr(x.s)
    ELSE NaNv

\* Number(x): numeric strings convert, anything else is NaN
RECURSIVE AllDigits(_)
AllDigits(s) == Len(s) = 0 \/ (DigitVal(Head(s)) >= 0 /\ AllDigits(Tail(s)))

ToNumber(x) ==
    IF x.k = "num" THEN x
    ELSE IF x.k = "str" /\ Len(x.s) > 0 /\ AllDigits(x.s) THEN Num(DigitsPrefix(x.s, -1))
    ELSE IF x.k = "str" /\ Len(x.s) = 0 THEN Num(0)
    ELSE NaNv

\* !x : undefined, null, 0, NaN and the empty string are falsy
Falsy(x) ==
    \/ x.k = "undef"
    \/ x.k = "nan"
    \/ (x.k = "num" /\ x.n = 0)
    \/ (x.k = "str" /\ Len(x.s) = 0)

\* x || d
OrElse(x, d) == IF Falsy(x) THEN d ELSE x

(***************************************************************************)
(* Validator (src/utils/validator.js, second definition)                   *)
(***************************************************************************)

VALID_CATEGORIES ==
    <<"food", "transport", "shopping", "entertainment",
      "healthcare", "utilities", "other", "rent", "salary", "income">>

CategorySet == {VALID_CATEGORIES[i] : i \in 1..Len(VALID_CATEGORIES)}

MaxAmount == 10000000

\* a range test that lets the ceiling itself through
validateAmountInclusive(amount) ==
    IF amount.k = "undef" THEN FALSE
    ELSE LET num == ParseFloat(amount)
         IN num.k = "num" /\ num.n > 0 /\ num.n <= MaxAmount

validateAmount(amount) ==
    IF amount.k = "undef" THEN FALSE
    ELSE LET num == ParseFloat(amount)
         IN num.k = "num" /\ num.n > 0 /\ num.n < MaxAmount

\* category.toLowerCase() raises a TypeError on a truthy value that is no string
validateCategoryThrows(category) == ~Falsy(category) /\ category.k # "str"

\* a membership test on the text as given
validateCategoryExact(category) ==
    IF Falsy(category) THEN FALSE
    ELSE category.s \in CategorySet

validateCategory(category) ==
    IF Falsy(category) THEN FALSE
    ELSE ToLowerCase(category.s) \in CategorySet

\* dates are day offsets from today; an unparseable date string is a "str" value
DaysInTwoYears == 730

validateDate(dateString) ==
    IF Falsy(dateString) THEN TRUE
    ELSE /\ dateString.k = "num"
         /\ dateString.n <= 1
         /\ dateString.n >= 0 - DaysInTwoYears

MaxDescriptionLen == 200
MaxMerchantLen == 100

StrLen(x) == IF x.k = "str" THEN Len(x.s) ELSE 0

\* validateExpenseData as first written: a record without a category fails
\* the category check
validateExpenseDataCategoryRequired(expenseData) ==
    IF expenseData.k = "undef" THEN <<"Expense data is required">>
    ELSE   (IF ~validateAmount(expenseData.amount)
            THEN <<"Invalid amount">> ELSE <<>>)
        \o (IF ~validateCategory(expenseData.category)
            THEN <<"Invalid category">> ELSE <<>>)
        \o (IF ~Falsy(expenseData.date) /\ ~validateDate(expenseData.date)
            THEN <<"Invalid date">> ELSE <<>>)
        \o (IF ~Falsy(expenseData.description) /\ StrLen(expenseData.description) > MaxDescriptionLen
            THEN <<"Description too long">> ELSE <<>>)
        \o (IF ~Falsy(expenseData.merchant) /\ StrLen(expenseData.merchant) > MaxMerchantLen
            THEN <<"Merchant name too long">> ELSE <<>>)

\* the guess is either null (Undef) or an object with the five checked fields
validateExpenseData(expenseData) ==
    IF expenseData.k = "undef" THEN <<"Expense data is required">>
    ELSE   (IF ~validateAmount(expenseData.amount)
            THEN <<"Invalid amount">> ELSE <<>>)
        \o (IF ~Falsy(expenseData.category) /\ ~validateCategory(expenseData.category)
            THEN <<"Invalid category">> ELSE <<>>)
        \o (IF ~Falsy(expenseData.date) /\ ~validateDate(expenseData.date)
            THEN <<"Invalid date">> ELSE <<>>)
        \o (IF ~Falsy(expenseData.description) /\ StrLen(expenseData.description) > MaxDescriptionLen
            THEN <<"Description too long">> ELSE <<>>)
        \o (IF ~Falsy(expenseData.merchant) /\ StrLen(expenseData.merchant) > MaxMerchantLen
            THEN <<"Merchant name too long">> ELSE <<>>)

\* validateExpenseData raises when the category check raises
validateExpenseDataThrows(expenseData) ==
    expenseData.k # "undef" /\ validateCategoryThrows(expenseData.category)

(***************************************************************************)
(* AI extraction adapters                                                  *)
(***************************************************************************)

Guess(a, c, m, d, dt) ==
    [k |-> "obj", amount |-> a, category |-> c, merchant |-> m,
     description |-> d, date |-> dt]

GroqCategories ==
    {"food", "transport", "shopping", "entertainment", "healthcare", "utilities", "other"}

\* GroqService.parseTextExpense: resp is the provider outcome, "fail" (the
\* API call rejects), "garbage" (JSON.parse raises) or the parsed object
parseTextExpense(resp) ==
    IF resp.k # "obj" THEN Undef
    ELSE IF \/ Falsy(resp.amount)
            \/ ToNumber(resp.amount).k = "nan"
            \/ ToNumber(resp.amount).n <= 0
         THEN Undef
         ELSE [resp EXCEPT
                 !.category = IF resp.category.k = "str" /\ resp.category.s \in GroqCategories
                              THEN resp.category ELSE Str("other"),
                 !.description = OrElse(resp.description, Str("expense"))]

\* an extractReceiptData without the checks of the amount
extractReceiptDataUnchecked(resp) ==
    IF resp.k # "obj" THEN Undef
    ELSE Guess(resp.amount,
               OrElse(resp.category, Str("other")),
               OrElse(resp.merchant, Str("Unknown")),
               Undef,
               OrElse(resp.date, Num(0)))

\* GeminiService.extractReceiptData: the returned object has no description
extractReceiptData(resp) ==
    IF resp.k # "obj" THEN Undef
    ELSE IF Falsy(resp.amount) \/ resp.amount.k # "num" THEN Undef
         ELSE Guess(resp.amount,
                    OrElse(resp.category, Str("other")),
                    OrElse(resp.merchant, Str("Unknown")),
                    Undef,
                    OrElse(resp.date, Num(0)))

(***************************************************************************)
(* Inbound messages, envelopes and requests                                *)
(***************************************************************************)

WABA == "whatsapp_business_account"

Msg(from, type, body) == [from |-> from, type |-> type, body |-> body]

Change(field, messages, statuses) ==
    [field |-> field, messages |-> messages, statuses |-> statuses]

Entry(changes) == [changes |-> changes]

Envelope(object, entry) == [object |-> object, entry |-> entry]

\* JSON.stringify(req.body): the canonical serialization of a parsed body
RECURSIVE StringifyMessages(_)
StringifyMessages(ms) ==
    IF Len(ms) = 0 THEN ""
    ELSE "{" \o ms[1].from \o "," \o ms[1].type \o "," \o ms[1].body \o "}"
         \o StringifyMessages(Tail(ms))

RECURSIVE StringifyChanges(_)
StringifyChanges(cs) ==
    IF Len(cs) = 0 THEN ""
    ELSE "(" \o cs[1].field \o ":" \o StringifyMessages(cs[1].messages)
         \o "/" \o StringifyMessages(cs[1].statuses) \o ")"
         \o StringifyChanges(Tail(cs))

RECURSIVE StringifyEntries(_)
StringifyEntries(es) ==
    IF Len(es) = 0 THEN ""
    ELSE "[" \o StringifyChanges(es[1].changes) \o "]" \o StringifyEntries(Tail(es))

Stringify(body) == "{" \o body.object \o StringifyEntries(body.entry) \o "}"

\* the bytes on the wire: the canonical text, or the same JSON with
\* insignificant leading whitespace (it parses to the same body)
RawBody(body, form) ==
    IF form = "canonical" THEN Stringify(body) ELSE " " \o Stringify(body)

\* crypto.createHmac('sha256', secret).update(bytes).digest('hex'), as an
\* injective term of key and bytes that contains no "="
HmacHex(secret, bytes) == "hmac<" \o secret \o ";" \o bytes \o ">"

(***************************************************************************)
(* Process configuration and signature middleware                          *)
(***************************************************************************)

requiredEnvVars ==
    <<"WEBHOOK_VERIFY_TOKEN", "META_ACCESS_TOKEN", "META_PHONE_NUMBER_ID",
      "GEMINI_API_KEY", "GROQ_API_KEY">>

EnvVars ==
    {requiredEnvVars[i] : i \in 1..Len(requiredEnvVars)}
        \cup {"META_APP_SECRET", "NODE_ENV", "SKIP_SIGNATURE_VERIFICATION"}

\* !process.env[v] : unset or empty
Unset(v) == v = NoVal \/ v = ""

missingVars(e) == {v \in EnvVars : v \in {requiredEnvVars[i] : i \in 1..Len(requiredEnvVars)} /\ Unset(e[v])}

\* a server module without the list of required variables, which only
\* checks the app secret
startupOutcomeSecretOnly(e) ==
    IF Unset(e["META_APP_SECRET"]) /\ e["NODE_ENV"] = "production" THEN "exited"
    ELSE "listening"

\* the checks made while the server module loads, before app.listen
startupOutcome(e) ==
    IF missingVars(e) # {} THEN "exited"
    ELSE IF Unset(e["META_APP_SECRET"]) /\ e["NODE_ENV"] = "production" THEN "exited"
    ELSE "listening"

\* verifySignature middleware: 0 stands for next(), otherwise the status sent
verifySignature(e, signature, body) ==
    IF e["NODE_ENV"] = "development" /\ e["SKIP_SIGNATURE_VERIFICATION"] = "true" THEN 0
    ELSE IF Unset(signature) THEN 403
    ELSE IF Unset(e["META_APP_SECRET"]) THEN 500
    ELSE LET signatureHash == PartAt(Split(signature, "="), 1)
             expectedHash == HmacHex(e["META_APP_SECRET"], Stringify(body))
         IN IF signatureHash.k = "undef" THEN 403
            ELSE IF Len(signatureHash.s) # Len(expectedHash) THEN 403
            ELSE IF signatureHash.s = expectedHash THEN 0
            ELSE 403

\* Validator.validateWebhookSignature as first written: no try block, and
\* crypto.timingSafeEqual raises on buffers of different lengths
validateWebhookSignatureUnguarded(payload, signature, secret) ==
    IF Unset(signature) \/ Unset(secret) THEN "false"
    ELSE LET expectedSignature == HmacHex(secret, payload)
             signatureHash ==
                 IF StartsWith(signature, "sha256=") THEN Slice(signature, 7)
                 ELSE signature
         IN IF Len(signatureHash) # Len(expectedSignature) THEN "throws"
            ELSE IF signatureHash = expectedSignature THEN "true"
            ELSE "false"

\* Validator.validateWebhookSignature: "true", "false", or "throws" when an
\* exception leaves the function. crypto.timingSafeEqual raises on buffers
\* of different lengths; the try block turns that into false
validateWebhookSignature(payload, signature, secret) ==
    IF Unset(signature) \/ Unset(secret) THEN "false"
    ELSE LET expectedSignature == HmacHex(secret, payload)
             signatureHash ==
                 IF StartsWith(signature, "sha256=")
                 THEN PartAt(Split(signature, "="), 1)
                 ELSE Str(signature)
         IN IF signatureHash.k = "undef" THEN "false"
            ELSE IF Len(signatureHash.s) # Len(expectedSignature) THEN "false"
            ELSE IF signatureHash.s = expectedSignature THEN "true"
            ELSE "false"

\* a handshake that compares the token only
webhookGetTokenOnly(e, mode, token, challenge) ==
    IF token = e["WEBHOOK_VERIFY_TOKEN"]
    THEN [status |-> 200, body |-> challenge]
    ELSE [status |-> 403, body |-> "Forbidden"]

\* a handshake that counts its uses: every second request is refused
webhookGetOnce(e, mode, token, challenge) ==
    IF mode = "subscribe" /\ token = e["WEBHOOK_VERIFY_TOKEN"] /\ hs.status # 200
    THEN [status |-> 200, body |-> challenge]
    ELSE [status |-> 403, body |-> "Forbidden"]

\* GET /webhook: the status and body sent
webhookGet(e, mode, token, challenge) ==
    IF mode = "subscribe" /\ token = e["WEBHOOK_VERIFY_TOKEN"]
    THEN [status |-> 200, body |-> challenge]
    ELSE [status |-> 403, body |-> "Forbidden"]

\* loops that hand the messages of every change to processMessage
RECURSIVE messagesOfAnyChange(_)
messagesOfAnyChange(cs) ==
    IF Len(cs) = 0 THEN <<>>
    ELSE cs[1].messages \o messagesOfAnyChange(Tail(cs))

\* the ordered messages reached by the loops of processWebhookEntries and
\* handleMessagesChange
RECURSIVE messagesOfChanges(_)
messagesOfChanges(cs) ==
    IF Len(cs) = 0 THEN <<>>
    ELSE (IF cs[1].field = "messages" THEN cs[1].messages ELSE <<>>)
         \o messagesOfChanges(Tail(cs))

RECURSIVE processWebhookEntries(_)
processWebhookEntries(entries) ==
    IF Len(entries) = 0 THEN <<>>
    ELSE messagesOfChanges(entries[1].changes) \o processWebhookEntries(Tail(entries))

\* a route handler that awaits processWebhookEntries before it answers
webhookPostAwaiting(body) ==
    IF body.object = WABA
    THEN [status |-> 0, body |-> NoVal, run |-> TRUE,
          messages |-> processWebhookEntries(body.entry)]
    ELSE [status |-> 404, body |-> "Not Found", run |-> FALSE, messages |-> <<>>]

\* a route handler without the test of the object field
webhookPostAnyObject(body) ==
    [status |-> 200, body |-> "EVENT_RECEIVED", run |-> TRUE,
     messages |-> processWebhookEntries(body.entry)]

\* POST /webhook after the middleware: the response sent, and the messages
\* handed to the asynchronous processing
webhookPost(body) ==
    IF body.object = WABA
    THEN [status |-> 200, body |-> "EVENT_RECEIVED", run |-> TRUE,
          messages |-> processWebhookEntries(body.entry)]
    ELSE [status |-> 404, body |-> "Not Found", run |-> FALSE, messages |-> <<>>]

(***************************************************************************)
(* Command dispatcher: classification and the calls each handler awaits    *)
(***************************************************************************)

\* one awaited call of a handler: an outbound reply, or a repository /
\* adapter / transport call
SendOp(kind, data) == [op |-> "send", kind |-> kind, data |-> data]
CallOp(fn, arg) == [op |-> "call", fn |-> fn, arg |-> arg]

\* the branch of the if-chain of handleTextMessage taken for msgLower
classify(msgLower) ==
    IF StartsWith(msgLower, "set budget") THEN "budget-set"
    ELSE IF msgLower = "budget" \/ msgLower = "budgets" \/ Includes(msgLower, "budget status")
         THEN "budget-status"
    ELSE IF msgLower = "delete last" \/ msgLower = "undo" THEN "undo"
    ELSE IF StartsWith(msgLower, "edit last amount ") THEN "edit-amount"
    ELSE IF StartsWith(msgLower, "edit last category ") THEN "edit-category"
    ELSE IF StartsWith(msgLower, "search ") THEN "search"
    ELSE IF \/ Includes(msgLower, "spent") \/ Includes(msgLower, "paid")
            \/ Includes(msgLower, "bought")
            \/ StartsWith(msgLower, "cab ") \/ StartsWith(msgLower, "uber ")
         THEN "expense"
    ELSE IF Includes(msgLower, "today") THEN "today"
    ELSE IF Includes(msgLower, "week") THEN "week"
    ELSE IF Includes(msgLower, "month") THEN "month"
    ELSE IF Includes(msgLower, "insights") THEN "insights"
    ELSE IF Includes(msgLower, "help") \/ msgLower = "hi" \/ msgLower = "hello" THEN "help"
    ELSE "fallback"

\* handleTextMessage up to its first result-dependent call: the calls it
\* awaits, in order
handleTextMessage(messageText) ==
    LET msgLower == Trim(ToLowerCase(messageText))
        intent == classify(msgLower)
        parts == Split(msgLower, " ")
    IN CASE intent = "budget-set" ->
              IF Len(parts) >= 4
              THEN LET category == PartAt(parts, 2)
                       amount == ParseFloat(PartAt(parts, 3))
                   IN IF validateCategory(category) /\ validateAmount(amount)
                      THEN <<CallOp("setBudget", [category |-> category.s, amount |-> amount.n]),
                             SendOp("budget-set", [category |-> category.s, amount |-> amount.n])>>
                      ELSE <<SendOp("budget-invalid", Undef)>>
              ELSE <<SendOp("budget-usage", Undef)>>
         [] intent = "budget-status" -> <<CallOp("getBudgetStatus", Undef)>>
         [] intent = "undo" -> <<CallOp("getLastExpense", Undef)>>
         [] intent = "edit-amount" ->
              LET amount == ParseFloat(PartAt(parts, 3))
              IN IF ~validateAmount(amount) THEN <<SendOp("invalid-amount", Undef)>>
                 ELSE <<CallOp("getLastExpense", [field |-> "amount", value |-> amount])>>
         [] intent = "edit-category" ->
              LET category == PartAt(parts, 3)
              IN IF ~validateCategory(category) THEN <<SendOp("invalid-category", Undef)>>
                 ELSE <<CallOp("getLastExpense", [field |-> "category", value |-> category])>>
         [] intent = "search" ->
              LET query == Trim(Slice(messageText, 7))
              IN IF Len(query) < 2 THEN <<SendOp("search-too-short", Undef)>>
                 ELSE <<SendOp("searching", Undef), CallOp("searchExpenses", Str(query)),
                        SendOp("search-results", Undef)>>
         [] intent = "expense" ->
              <<SendOp("processing", Undef), CallOp("parseTextExpense", Undef)>>
         [] intent \in {"today", "week", "month"} ->
              <<CallOp("getExpenses", Str(intent)), SendOp(intent, Undef)>>
         [] intent = "insights" ->
              <<SendOp("analyzing", Undef), CallOp("getExpenses", Str("month")),
                CallOp("generateInsights", Undef), SendOp("insights", Undef)>>
         [] intent = "help" -> <<SendOp("help", Undef)>>
         [] OTHER -> <<SendOp("fallback", Undef)>>

\* replies that only announce work in progress
ProgressKinds == {"searching", "processing", "analyzing", "receipt-processing"}

\* replies sent from a catch block
ErrorKinds == {"generic-error", "sorry", "receipt-error"}

(***************************************************************************)
(* Bounds and the inputs the environment may send                          *)
(***************************************************************************)

\* expense ids handed out before the platform stops delivering
MaxSaves == 2


Users == {"u1", "u2"}

\* the app secret the platform signs with, and a key it does not hold
SharedSecret == "s1"
WrongSecret == "s2"
VerifyToken == "tok"

BaseEnv ==
    [v \in EnvVars |->
        CASE v = "NODE_ENV" -> "production"
          [] v = "SKIP_SIGNATURE_VERIFICATION" -> NoVal
          [] v = "META_APP_SECRET" -> SharedSecret
          [] v = "WEBHOOK_VERIFY_TOKEN" -> VerifyToken
          [] OTHER -> "set"]

EnvDevSkip ==
    [BaseEnv EXCEPT !["NODE_ENV"] = "development",
                    !["SKIP_SIGNATURE_VERIFICATION"] = "true",
                    !["META_APP_SECRET"] = NoVal]

EnvDevNoSecret ==
    [BaseEnv EXCEPT !["NODE_ENV"] = "development", !["META_APP_SECRET"] = NoVal]

EnvProdSkipFlag == [BaseEnv EXCEPT !["SKIP_SIGNATURE_VERIFICATION"] = "true"]

EnvNoToken == [BaseEnv EXCEPT !["WEBHOOK_VERIFY_TOKEN"] = NoVal]

EnvProdNoSecret == [BaseEnv EXCEPT !["META_APP_SECRET"] = NoVal]

\* a deployment and the class of traffic it receives
Scenarios ==
    {[env |-> BaseEnv, load |-> l, store |-> "postgres"] :
        l \in {"dispatch", "ledger", "concurrent", "probe", "handshake", "faults"}}
    \cup {[env |-> e, load |-> "probe", store |-> "postgres"] :
        e \in {EnvDevSkip, EnvDevNoSecret, EnvProdSkipFlag, EnvNoToken, EnvProdNoSecret}}
    \cup {[env |-> BaseEnv, load |-> "concurrent", store |-> "sqlite"]}

TextBodies ==
    {"set budget food 50", "set budget food 0", "set budget spent 5", "set budget food", "budget",
     "budget status paid", "undo", "edit last amount 70", "edit last amount 0",
     "edit last category Rent", "edit last category transport", "edit last category xyz", "search a",
     "  search a",
     "search food", "Spent 250 on lunch", "today i paid", "this week",
     "month", "categories", "insights this month", "help", "hello there"}

SpentText == "Spent 250 on lunch"

MessagesOf(l) ==
    CASE l = "dispatch" ->
           {Msg("u1", "text", b) : b \in TextBodies} \cup {Msg("u1", "audio", "")}
      [] l = "ledger" ->
           {Msg(u, "text", b) : u \in Users, b \in {SpentText, "undo", "set budget food 50"}}
           \cup {Msg("u1", "text", "edit last amount 70")}
           \cup {Msg("u1", "image", "")}
      [] l = "concurrent" ->
           {Msg("u1", "text", b) :
                b \in {SpentText, "undo", "set budget food 50", "set budget food 70", "budget"}}
      [] l = "faults" ->
           {Msg("u1", "text", b) : b \in {SpentText, "undo", "insights"}}
           \cup {Msg("u1", "image", ""), Msg("u1", "audio", "")}
      [] OTHER -> {Msg("u1", "text", SpentText)}

Single(m) == Envelope(WABA, <<Entry(<<Change("messages", <<m>>, <<>>)>>)>>)

\* envelopes that exercise the unpacking: a batch, a change of another
\* field, a foreign object, an empty entry list
BatchesOf(l) ==
    IF l \in {"ledger", "faults"}
    THEN {Envelope(WABA, <<Entry(<<Change("messages", <<m1, m2>>, <<>>)>>)>>) :
             m1 \in {Msg("u1", "text", SpentText), Msg("u1", "image", "")},
             m2 \in {Msg("u1", "text", "undo"), Msg("u2", "text", SpentText)}}
    ELSE {}

ProbesOf(l) ==
    IF l = "probe"
    THEN LET m == Msg("u1", "text", SpentText)
         IN {Single(m),
             Envelope("page", <<Entry(<<Change("messages", <<m>>, <<>>)>>)>>),
             Envelope(WABA, <<Entry(<<Change("account_update", <<m>>, <<>>),
                                      Change("messages", <<>>, <<m>>)>>)>>),
             Envelope(WABA, <<>>)}
    ELSE {}

Sign(secret, bytes) == "sha256=" \o HmacHex(secret, bytes)

\* the x-hub-signature-256 headers tried against a probe envelope
SignaturesOf(body, form) ==
    {NoVal, "sha256", "sha256=",
     Sign(SharedSecret, RawBody(body, form)),
     Sign(SharedSecret, Stringify(body)),
     Sign(WrongSecret, Stringify(body))}

Requests(l) ==
    {[body |-> b, form |-> "canonical", signature |-> Sign(SharedSecret, Stringify(b))] :
        b \in {Single(m) : m \in MessagesOf(l)} \cup BatchesOf(l)}
    \cup UNION {{[body |-> b, form |-> f, signature |-> sg] : sg \in SignaturesOf(b, f)} :
                 <<b, f>> \in ProbesOf(l) \X {"canonical", "spaced"}}

Slots == {1, 2}

SlotsOf(l) == IF l = "concurrent" THEN Slots ELSE {1}

\* what the text / vision provider may answer: the call fails, the answer
\* is no JSON, or it is a JSON object
GoodAnswer == Guess(Num(250), Str("food"), Undef, Str("lunch"), Undef)

ProviderAnswers(l) ==
    IF l = "ledger"
    THEN {[k |-> "fail"], GoodAnswer,
          Guess(Num(250), Str("Food"), Str("cafe"), Undef, Undef)}
    ELSE IF l = "faults"
    THEN {[k |-> "fail"], [k |-> "garbage"], GoodAnswer,
          Guess(Num(0), Str("food"), Undef, Undef, Undef),
          Guess(Num(-5), Str("food"), Undef, Undef, Undef),
          Guess(Num(250), Str("Food"), Str("cafe"), Undef, Undef),
          Guess(Num(250), Str("bogus"), Undef, Undef, Num(5)),
          Guess(Num(40), Str("transport"), Str("cab"), Undef, Num(0 - 3)),
          Guess(Num(250), Num(7), Undef, Undef, Undef),
          Guess(Str("abc"), Undef, Undef, Undef, Undef)}
    ELSE {GoodAnswer}

\* which calls may fail: repository queries, the reply transport
FaultsOf(l) == IF l = "faults" THEN {TRUE, FALSE} ELSE {TRUE}

HandshakeInputs(l) ==
    IF l = "handshake"
    THEN {"subscribe", "unsubscribe", NoVal} \X {VerifyToken, "bad", NoVal} \X {"c1", "c2", NoVal}
    ELSE IF l = "probe" THEN {<<"subscribe", VerifyToken, "c1">>, <<"subscribe", NoVal, "c1">>}
    ELSE {}

(***************************************************************************)
(* Idle values and the initial state                                       *)
(***************************************************************************)

NoMsg == Msg(NoVal, NoVal, NoVal)

NoReq ==
    [signature |-> NoVal, raw |-> NoVal, canon |-> NoVal, object |-> NoVal,
     body |-> Envelope(NoVal, <<>>)]

\* no provider has answered for the message being handled
NoAnswer == [k |-> "none"]

\* a delivery slot: the response sent, the messages not yet handled, the
\* message being handled with the calls its handler still awaits, and
\* what has been observed of it (replies, raised errors, calls made, the
\* provider's answer)
IdleDelivery ==
    [stage |-> "idle", status |-> 0, body |-> NoVal, req |-> NoReq,
     queue |-> <<>>, msg |-> NoMsg, intent |-> NoVal, script |-> <<>>,
     ctx |-> NoVal, loc |-> Undef, replies |-> <<>>, raised |-> {},
     called |-> FALSE, provider |-> FALSE, answer |-> NoAnswer, logged |-> NoVal]

\* no Validator function has been called directly
NoUnit == [fn |-> NoVal, args |-> <<>>, out |-> [k |-> "none"]]

\* the outcome of a direct call: the value returned, or an exception
Ret(v) == [k |-> "ret", v |-> v]
Thrown == [k |-> "throws"]

NoHandshake == [mode |-> NoVal, token |-> NoVal, challenge |-> NoVal, status |-> 0, body |-> NoVal]

Init ==
    /\ \E sc \in Scenarios : env = sc.env /\ load = sc.load /\ store = sc.store
    /\ proc = "starting"
    /\ users = {}
    /\ expenses = {}
    /\ budgets = {}
    /\ nextId = 1
    /\ dl = [d \in Slots |-> IdleDelivery]
    /\ hs = NoHandshake
    /\ unit = NoUnit

(***************************************************************************)
(* Repository (src/services/database.js, PostgreSQL service)               *)
(***************************************************************************)

Row(id, user, amount, category, merchant, description, date, created) ==
    [k |-> "row", id |-> id, user |-> user, amount |-> amount, category |-> category,
     merchant |-> merchant, description |-> description, date |-> date,
     created |-> created]

RECURSIVE SumAmounts(_)
SumAmounts(rows) ==
    IF rows = {} THEN 0
    ELSE LET r == CHOOSE x \in rows : TRUE IN r.amount + SumAmounts(rows \ {r})

MaxCreated(rows) == IF rows = {} THEN 0 ELSE CHOOSE c \in {r.created : r \in rows} :
                                                \A r \in rows : r.created <= c

\* an INSERT INTO expenses that binds no merchant
saveExpenseRowNoMerchant(userPhone, expenseData, id, created) ==
    Row(id, userPhone,
        ToNumber(expenseData.amount).n,
        OrElse(expenseData.category, Str("other")).s,
        "",
        OrElse(expenseData.description, Str("")).s,
        OrElse(expenseData.date, Num(0)).n,
        created)

\* INSERT INTO expenses: the row stored for a guess; created_at is the
\* current timestamp
saveExpenseRow(userPhone, expenseData, id, created) ==
    Row(id, userPhone,
        ToNumber(expenseData.amount).n,
        OrElse(expenseData.category, Str("other")).s,
        OrElse(expenseData.merchant, Str("")).s,
        OrElse(expenseData.description, Str("")).s,
        OrElse(expenseData.date, Num(0)).n,
        created)

\* an insert that is skipped when the sender already has a row with the
\* same amount, category, merchant, description and date
insertExpenseOnce(row) ==
    IF \E r \in expenses :
           [r EXCEPT !.id = 0, !.created = 0] = [row EXCEPT !.id = 0, !.created = 0]
    THEN expenses
    ELSE expenses \cup {row}

\* DatabaseService.saveExpense: a plain INSERT, with no key other than the
\* serial id
insertExpense(row) == expenses \cup {row}

\* date = today
getTodayTotal(userPhone) ==
    SumAmounts({r \in expenses : r.user = userPhone /\ r.date = 0})

DaysInWeek == 7
DaysInMonth == 30

\* getTodayExpenses / getWeekExpenses / getMonthExpenses
getExpenses(userPhone, window) ==
    {r \in expenses :
        /\ r.user = userPhone
        /\ CASE window = "today" -> r.date = 0
             [] window = "week" -> r.date >= 0 - DaysInWeek
             [] OTHER -> r.date >= 0 - DaysInMonth}

\* SELECT * FROM expenses WHERE user_phone = $1 AND date = today
getTodayExpenses(userPhone) == getExpenses(userPhone, "today")

\* ORDER BY created_at DESC LIMIT 1: any row with the latest created_at
getLastExpense(userPhone) ==
    LET mine == {r \in expenses : r.user = userPhone}
    IN {r \in mine : r.created = MaxCreated(mine)}

deleteExpense(id, userPhone) == {r \in expenses : ~(r.id = id /\ r.user = userPhone)}

\* an UPDATE whose SET clause also resets the description
updateExpenseClearing(id, userPhone, field, value) ==
    {IF r.id = id /\ r.user = userPhone
     THEN (IF field = "amount" THEN [r EXCEPT !.amount = value.n, !.description = ""]
           ELSE [r EXCEPT !.category = value.s, !.description = ""])
     ELSE r : r \in expenses}

\* UPDATE expenses SET <field> = value, updated_at = CURRENT_TIMESTAMP
\* WHERE id AND user_phone (rows carry no updated_at in this model)
updateExpense(id, userPhone, field, value) ==
    {IF r.id = id /\ r.user = userPhone
     THEN (IF field = "amount" THEN [r EXCEPT !.amount = value.n]
           ELSE [r EXCEPT !.category = value.s])
     ELSE r : r \in expenses}

\* description ILIKE %q% OR merchant ILIKE %q% OR category ILIKE %q%
searchExpenses(userPhone, query) ==
    LET q == ToLowerCase(query)
    IN {r \in expenses :
          /\ r.user = userPhone
          /\ \/ Includes(ToLowerCase(r.description), q)
             \/ Includes(ToLowerCase(r.merchant), q)
             \/ Includes(ToLowerCase(r.category), q)}


\* an upsert that stores no row
createOrUpdateUserNoRow(phone) == users

\* DatabaseService.createOrUpdateUser: INSERT ... ON CONFLICT(phone) DO
\* UPDATE SET last_active; rows are identified by their phone number
createOrUpdateUser(phone) == users \cup {phone}

BudgetRow(id, user, category, amount, period) ==
    [id |-> id, user |-> user, category |-> category, amount |-> amount,
     period |-> period]

\* the budget rows of a (user_phone, category, period) key
BudgetsOf(userPhone, category, period) ==
    {b \in budgets : b.user = userPhone /\ b.category = category /\ b.period = period}

\* an id no budget row has
FreshBudgetId ==
    IF budgets = {} THEN 1
    ELSE 1 + (CHOOSE i \in {b.id : b \in budgets} : \A b \in budgets : b.id <= i)

\* an upsert whose conflict clause is DO NOTHING
setBudgetDoNothing(userPhone, category, amount) ==
    IF BudgetsOf(userPhone, category, "monthly") = {}
    THEN budgets \cup {BudgetRow(FreshBudgetId, userPhone, category, amount, "monthly")}
    ELSE budgets

\* PostgreSQL build: INSERT ... ON CONFLICT(user_phone, category, period)
\* DO UPDATE SET amount, one statement; the row in conflict keeps its id
setBudget(userPhone, category, amount) ==
    LET old == BudgetsOf(userPhone, category, "monthly")
    IN IF old = {}
       THEN budgets \cup {BudgetRow(FreshBudgetId, userPhone, category, amount, "monthly")}
       ELSE (budgets \ old) \cup {[b EXCEPT !.amount = amount] : b \in old}

\* SQLite build, first statement of setBudget: DELETE FROM budgets WHERE
\* user_phone = ? AND category = ? AND period = ?
deleteBudget(userPhone, category) ==
    budgets \ BudgetsOf(userPhone, category, "monthly")

\* SQLite build, second statement of setBudget, run from the callback of
\* the first: a plain INSERT (the table has no unique constraint)
insertBudget(userPhone, category, amount) ==
    budgets \cup {BudgetRow(FreshBudgetId, userPhone, category, amount, "monthly")}

\* the first day of the month, as a day offset from today
MonthStart == 0 - 10

\* PostgreSQL build: budgets LEFT JOIN expenses GROUP BY b.category, b.amount
getBudgetStatus(userPhone) ==
    {[category |-> b.category, budget_limit |-> b.amount,
      spent |-> SumAmounts({r \in expenses :
                   r.user = b.user /\ r.category = b.category /\ r.date >= MonthStart})] :
        b \in {x \in budgets : x.user = userPhone}}

\* SQLite build: the same join GROUP BY b.category only: one line per
\* category, its limit taken from any row of the group, its sum counting an
\* expense once per budget row of the group; the set of possible results
getBudgetStatusSqlite(userPhone) ==
    LET mine == {b \in budgets : b.user = userPhone}
        cats == {b.category : b \in mine}
        rowsOf(c) == {b \in mine : b.category = c}
    IN {{[category |-> c, budget_limit |-> pick[c],
          spent |-> Cardinality(rowsOf(c)) *
                    SumAmounts({r \in expenses :
                        r.user = userPhone /\ r.category = c /\ r.date >= MonthStart})] :
           c \in cats} :
        pick \in {f \in [cats -> {b.amount : b \in mine}] :
                    \A c \in cats : f[c] \in {b.amount : b \in rowsOf(c)}}}

(***************************************************************************)
(* Startup and webhook ingestion                                           *)
(***************************************************************************)

\* module load: the required-variable checks, then app.listen
Startup ==
    /\ proc = "starting"
    /\ proc' = startupOutcome(env)
    /\ UNCHANGED <<unit, env, load, store, users, expenses, budgets, nextId, dl, hs>>

\* GET /webhook: the handshake and the response it got
GetWebhook ==
    /\ proc = "listening"
    /\ \E q \in HandshakeInputs(load) :
         LET r == webhookGet(env, q[1], q[2], q[3])
         IN hs' = [mode |-> q[1], token |-> q[2], challenge |-> q[3],
                   status |-> r.status, body |-> r.body]
    /\ UNCHANGED <<unit, env, load, store, proc, users, expenses, budgets, nextId, dl>>

\* POST /webhook: verifySignature, then the route handler, which answers
\* and only then starts processWebhookEntries without awaiting it
PostWebhook(d) ==
    /\ proc = "listening"
    /\ d \in SlotsOf(load)
    /\ dl[d].stage \in {"idle", "done"}
    /\ nextId <= MaxSaves
    /\ \E rq \in Requests(load) :
         LET v == verifySignature(env, rq.signature, rq.body)
             h == webhookPost(rq.body)
             req == [signature |-> rq.signature, raw |-> RawBody(rq.body, rq.form),
                     canon |-> Stringify(rq.body), object |-> rq.body.object,
                     body |-> rq.body]
         IN dl' = [dl EXCEPT ![d] =
                IF v # 0
                THEN [IdleDelivery EXCEPT !.stage = "done", !.status = v, !.req = req]
                ELSE [IdleDelivery EXCEPT
                        !.stage = IF h.run THEN "processing" ELSE "done",
                        !.status = h.status, !.body = h.body,
                        !.queue = h.messages, !.req = req]]
    /\ UNCHANGED <<unit, env, load, store, proc, users, expenses, budgets, nextId, hs>>

(***************************************************************************)
(* Asynchronous processing of an accepted delivery                         *)
(***************************************************************************)

Running(d) == proc = "listening" /\ dl[d].stage = "processing"

AtCall(d, fn) ==
    /\ Running(d)
    /\ Len(dl[d].script) > 0
    /\ Head(dl[d].script).op = "call"
    /\ Head(dl[d].script).fn = fn

\* exception handling in which an error that leaves processMessage reaches
\* the catch block of the route handler, which answers 500
RaiseSurfacing(r, kind) ==
    LET r1 == [r EXCEPT !.raised = @ \cup {kind}, !.called = TRUE]
    IN CASE r.ctx = "text" ->
              [r1 EXCEPT !.script = <<SendOp("generic-error", Undef)>>, !.ctx = "text-catch"]
         [] r.ctx = "image" ->
              [r1 EXCEPT !.script = <<SendOp("receipt-error", Undef)>>, !.ctx = "image-catch"]
         [] r.ctx \in {"message", "text-catch", "image-catch"} ->
              [r1 EXCEPT !.script = <<SendOp("sorry", Undef)>>, !.ctx = "message-catch"]
         [] OTHER ->
              [r1 EXCEPT !.script = <<>>, !.ctx = NoVal, !.stage = "done", !.logged = kind,
                         !.status = 500, !.body = "INTERNAL_SERVER_ERROR"]

\* exception handling without the try blocks of the handlers and of
\* processMessage
RaiseUncaught(r, kind) ==
    [r EXCEPT !.raised = @ \cup {kind}, !.called = TRUE, !.script = <<>>,
              !.ctx = NoVal, !.stage = "done", !.logged = kind]

\* an exception raised inside the try block the handler is in: the catch
\* block replies; raised inside a catch block it leaves the function, and
\* leaving processMessage it rejects processWebhookEntries, whose .catch logs
Raise(r, kind) ==
    LET r1 == [r EXCEPT !.raised = @ \cup {kind}, !.called = TRUE]
    IN CASE r.ctx = "text" ->
              [r1 EXCEPT !.script = <<SendOp("generic-error", Undef)>>, !.ctx = "text-catch"]
         [] r.ctx = "image" ->
              [r1 EXCEPT !.script = <<SendOp("receipt-error", Undef)>>, !.ctx = "image-catch"]
         [] r.ctx \in {"message", "text-catch", "image-catch"} ->
              [r1 EXCEPT !.script = <<SendOp("sorry", Undef)>>, !.ctx = "message-catch"]
         [] OTHER ->
              [r1 EXCEPT !.script = <<>>, !.ctx = NoVal, !.stage = "done", !.logged = kind]

\* the process after a step that left slot r: without the .catch on
\* processWebhookEntries a rejection is unhandled, which ends the process
processAfterUnhandled(r) == IF r.logged # NoVal THEN "exited" ELSE "listening"

\* the process after a step of the asynchronous processing that left slot
\* r: a rejection of processWebhookEntries is handled by its .catch, which
\* logs it, and no handler calls process.exit, so the process goes on
processAfter(r) == "listening"

\* the awaited call returned res: the handler goes on with the calls rest
Return(r, res, rest) == [r EXCEPT !.loc = res, !.script = rest, !.called = TRUE]

\* the loops of processWebhookEntries / handleMessagesChange: take the next
\* message, or finish when none is left
NextMessage(d) ==
    /\ Running(d)
    /\ dl[d].script = <<>>
    /\ dl' = [dl EXCEPT ![d] =
            IF Len(dl[d].queue) = 0
            THEN [dl[d] EXCEPT !.stage = "done", !.ctx = NoVal]
            ELSE [dl[d] EXCEPT !.msg = Head(dl[d].queue), !.queue = Tail(dl[d].queue),
                           !.intent = NoVal, !.ctx = "message", !.loc = Undef,
                           !.replies = <<>>, !.raised = {}, !.provider = FALSE,
                           !.answer = NoAnswer,
                           !.script = <<CallOp("createOrUpdateUser", Undef),
                                        CallOp("markAsRead", Undef)>>]]
    /\ proc' = processAfter(dl'[d])
    /\ UNCHANGED <<unit, env, load, store, users, expenses, budgets, nextId, hs>>

\* processMessage: INSERT INTO users ... ON CONFLICT DO UPDATE
CreateOrUpdateUser(d) ==
    /\ AtCall(d, "createOrUpdateUser")
    /\ \E ok \in FaultsOf(load) :
         IF ok
         THEN /\ users' = createOrUpdateUser(dl[d].msg.from)
              /\ dl' = [dl EXCEPT ![d] = Return(dl[d], Undef, Tail(dl[d].script))]
         ELSE /\ users' = users
              /\ dl' = [dl EXCEPT ![d] = Raise(dl[d], "repository")]
    /\ proc' = processAfter(dl'[d])
    /\ UNCHANGED <<unit, env, load, store, expenses, budgets, nextId, hs>>

\* processMessage: markAsRead swallows its own errors; then the switch on
\* the message type enters the handler
MarkAsRead(d) ==
    /\ AtCall(d, "markAsRead")
    /\ dl' = [dl EXCEPT ![d] =
            LET m == dl[d].msg
            IN CASE m.type = "text" ->
                      [Return(dl[d], Undef, handleTextMessage(m.body)) EXCEPT
                          !.ctx = "text",
                          !.intent = classify(Trim(ToLowerCase(m.body)))]
                 [] m.type = "image" ->
                      [Return(dl[d], Undef, <<SendOp("receipt-processing", Undef)>>) EXCEPT
                          !.intent = "image"]
                 [] OTHER ->
                      [Return(dl[d], Undef, <<SendOp("unsupported", Undef)>>) EXCEPT
                          !.intent = "unsupported"]]
    /\ proc' = processAfter(dl'[d])
    /\ UNCHANGED <<unit, env, load, store, users, expenses, budgets, nextId, hs>>

\* whatsappService.sendMessage: the reply is delivered, or the call throws.
\* handleImageMessage enters its try block after its first reply
SendMessage(d) ==
    /\ Running(d)
    /\ Len(dl[d].script) > 0
    /\ Head(dl[d].script).op = "send"
    /\ \E ok \in FaultsOf(load) :
         dl' = [dl EXCEPT ![d] =
            LET op == Head(dl[d].script)
                sent == [dl[d] EXCEPT !.replies =
                            Append(@, [kind |-> op.kind, data |-> op.data, res |-> dl[d].loc])]
            IN IF ~ok THEN Raise(dl[d], "transport")
               ELSE IF op.kind = "receipt-processing"
               THEN [Return(sent, sent.loc,
                            <<CallOp("downloadMedia", Undef), CallOp("extractReceiptData", Undef)>>)
                       EXCEPT !.ctx = "image"]
               ELSE Return(sent, sent.loc, Tail(sent.script))]
    /\ proc' = processAfter(dl'[d])
    /\ UNCHANGED <<unit, env, load, store, users, expenses, budgets, nextId, hs>>

(***************************************************************************)
(* The awaited repository and adapter calls of the handlers                *)
(***************************************************************************)

\* a handler that passes on the phone number of one fixed user
CallerFixed(d) == "u1"

Caller(d) == dl[d].msg.from

Arg(d) == Head(dl[d].script).arg

\* handleTextMessage, budget-set branch: the upsert of the PostgreSQL
\* build, or the DELETE of the SQLite build, whose callback runs the INSERT
SetBudget(d) ==
    /\ AtCall(d, "setBudget")
    /\ \E ok \in FaultsOf(load) :
         IF ~ok
         THEN /\ budgets' = budgets
              /\ dl' = [dl EXCEPT ![d] = Raise(dl[d], "repository")]
         ELSE IF store = "postgres"
         THEN /\ budgets' = setBudget(Caller(d), Arg(d).category, Arg(d).amount)
              /\ dl' = [dl EXCEPT ![d] = Return(dl[d], Undef, Tail(dl[d].script))]
         ELSE /\ budgets' = deleteBudget(Caller(d), Arg(d).category)
              /\ dl' = [dl EXCEPT ![d] =
                     Return(dl[d], Undef,
                            <<CallOp("insertBudget", Arg(d))>> \o Tail(dl[d].script))]
    /\ proc' = processAfter(dl'[d])
    /\ UNCHANGED <<unit, env, load, store, users, expenses, nextId, hs>>

\* SQLite build: the INSERT of setBudget, which resolves the promise
InsertBudget(d) ==
    /\ AtCall(d, "insertBudget")
    /\ \E ok \in FaultsOf(load) :
         IF ok
         THEN /\ budgets' = insertBudget(Caller(d), Arg(d).category, Arg(d).amount)
              /\ dl' = [dl EXCEPT ![d] = Return(dl[d], Undef, Tail(dl[d].script))]
         ELSE /\ budgets' = budgets
              /\ dl' = [dl EXCEPT ![d] = Raise(dl[d], "repository")]
    /\ proc' = processAfter(dl'[d])
    /\ UNCHANGED <<unit, env, load, store, users, expenses, nextId, hs>>

\* Math.round((spent / budget_limit) * 100) for amounts that are not negative
percentOf(spent, budget_limit) == (200 * spent + budget_limit) \div (2 * budget_limit)

SegmentsInBar == 10

\* the block of one status row: the percent and the two counts handed to
\* String.prototype.repeat, Math.floor(percent / 10) and 10 minus it
budgetBlock(b) ==
    LET percent == percentOf(b.spent, b.budget_limit)
    IN [category |-> b.category, percent |-> percent,
        filled |-> percent \div 10, empty |-> SegmentsInBar - (percent \div 10),
        spent |-> b.spent, budget_limit |-> b.budget_limit]

\* repeat raises a RangeError on a negative count
renderThrows(status) == \E b \in status : budgetBlock(b).empty < 0

\* handleTextMessage, budget-status branch
GetBudgetStatus(d) ==
    /\ AtCall(d, "getBudgetStatus")
    /\ \E ok \in FaultsOf(load),
          status \in (IF store = "postgres" THEN {getBudgetStatus(Caller(d))}
                      ELSE getBudgetStatusSqlite(Caller(d))) :
         dl' = [dl EXCEPT ![d] =
            IF ~ok THEN Raise(dl[d], "repository")
            ELSE IF renderThrows(status) THEN Raise(dl[d], "range")
            ELSE Return(dl[d], Undef,
                   <<SendOp(IF status = {} THEN "budget-none" ELSE "budget-status",
                            [status |-> status,
                             blocks |-> {budgetBlock(b) : b \in status}])>>)]
    /\ proc' = processAfter(dl'[d])
    /\ UNCHANGED <<unit, env, load, store, users, expenses, budgets, nextId, hs>>

\* handleTextMessage, undo and edit-last branches: the most recent expense
\* decides what follows
GetLastExpense(d) ==
    /\ AtCall(d, "getLastExpense")
    /\ \E ok \in FaultsOf(load) :
         LET found == getLastExpense(Caller(d))
             undo == dl[d].intent = "undo"
         IN IF ~ok THEN dl' = [dl EXCEPT ![d] = Raise(dl[d], "repository")]
            ELSE IF found = {}
            THEN dl' = [dl EXCEPT ![d] =
                     Return(dl[d], Undef,
                        <<SendOp(IF undo THEN "nothing-to-delete" ELSE "nothing-to-edit", Undef)>>)]
            ELSE \E lastExpense \in found :
                   dl' = [dl EXCEPT ![d] =
                     Return(dl[d], lastExpense,
                        IF undo
                        THEN <<CallOp("deleteExpense", lastExpense),
                               SendOp("deleted", lastExpense)>>
                        ELSE <<CallOp("updateExpense",
                                      [id |-> lastExpense.id, field |-> Arg(d).field,
                                       value |-> Arg(d).value]),
                               SendOp("updated", Arg(d))>>)]
    /\ proc' = processAfter(dl'[d])
    /\ UNCHANGED <<unit, env, load, store, users, expenses, budgets, nextId, hs>>

DeleteExpense(d) ==
    /\ AtCall(d, "deleteExpense")
    /\ \E ok \in FaultsOf(load) :
         IF ok
         THEN /\ expenses' = deleteExpense(Arg(d).id, Caller(d))
              /\ dl' = [dl EXCEPT ![d] = Return(dl[d], dl[d].loc, Tail(dl[d].script))]
         ELSE /\ expenses' = expenses
              /\ dl' = [dl EXCEPT ![d] = Raise(dl[d], "repository")]
    /\ proc' = processAfter(dl'[d])
    /\ UNCHANGED <<unit, env, load, store, users, budgets, nextId, hs>>

UpdateExpense(d) ==
    /\ AtCall(d, "updateExpense")
    /\ \E ok \in FaultsOf(load) :
         IF ok
         THEN /\ expenses' = updateExpense(Arg(d).id, Caller(d), Arg(d).field, Arg(d).value)
              /\ dl' = [dl EXCEPT ![d] = Return(dl[d], dl[d].loc, Tail(dl[d].script))]
         ELSE /\ expenses' = expenses
              /\ dl' = [dl EXCEPT ![d] = Raise(dl[d], "repository")]
    /\ proc' = processAfter(dl'[d])
    /\ UNCHANGED <<unit, env, load, store, users, budgets, nextId, hs>>

SearchExpenses(d) ==
    /\ AtCall(d, "searchExpenses")
    /\ \E ok \in FaultsOf(load) :
         dl' = [dl EXCEPT ![d] =
            IF ~ok THEN Raise(dl[d], "repository")
            ELSE Return(dl[d], Num(Cardinality(searchExpenses(Caller(d), Arg(d).s))),
                        Tail(dl[d].script))]
    /\ proc' = processAfter(dl'[d])
    /\ UNCHANGED <<unit, env, load, store, users, expenses, budgets, nextId, hs>>

\* getTodayExpenses / getWeekExpenses / getMonthExpenses
GetExpenses(d) ==
    /\ AtCall(d, "getExpenses")
    /\ \E ok \in FaultsOf(load) :
         dl' = [dl EXCEPT ![d] =
            IF ~ok THEN Raise(dl[d], "repository")
            ELSE Return(dl[d], Num(Cardinality(getExpenses(Caller(d), Arg(d).s))),
                        Tail(dl[d].script))]
    /\ proc' = processAfter(dl'[d])
    /\ UNCHANGED <<unit, env, load, store, users, expenses, budgets, nextId, hs>>

\* expense and image branches: the insert fails when the database is down
\* or the user row is missing (foreign key)
SaveExpense(d) ==
    /\ AtCall(d, "saveExpense")
    /\ \E ok \in FaultsOf(load) :
         IF ok /\ Caller(d) \in users
         THEN /\ expenses' = insertExpense(
                    saveExpenseRow(Caller(d), Arg(d), nextId, MaxCreated(expenses) + 1))
              /\ nextId' = nextId + 1
              /\ dl' = [dl EXCEPT ![d] = Return(dl[d], Num(nextId), Tail(dl[d].script))]
         ELSE /\ UNCHANGED <<expenses, nextId>>
              /\ dl' = [dl EXCEPT ![d] = Raise(dl[d], "repository")]
    /\ proc' = processAfter(dl'[d])
    /\ UNCHANGED <<unit, env, load, store, users, budgets, hs>>

GetTodayTotal(d) ==
    /\ AtCall(d, "getTodayTotal")
    /\ \E ok \in FaultsOf(load) :
         dl' = [dl EXCEPT ![d] =
            IF ~ok THEN Raise(dl[d], "repository")
            ELSE Return(dl[d], Num(getTodayTotal(Caller(d))), Tail(dl[d].script))]
    /\ proc' = processAfter(dl'[d])
    /\ UNCHANGED <<unit, env, load, store, users, expenses, budgets, nextId, hs>>

\* a handler whose confirmation is not in an else branch of its own
afterGuessBoth(guess, savedKind, invalidKind) ==
    LET validationErrors == validateExpenseData(guess)
    IN IF Len(validationErrors) = 0
       THEN <<CallOp("saveExpense", guess), CallOp("getTodayTotal", Undef),
              SendOp(savedKind, guess),
              SendOp(invalidKind, [errors |-> validationErrors])>>
       ELSE <<SendOp(invalidKind, [errors |-> validationErrors])>>

\* a handler that reads today's total before it saves
afterGuessTotalFirst(guess, savedKind, invalidKind) ==
    LET validationErrors == validateExpenseData(guess)
    IN IF Len(validationErrors) = 0
       THEN <<CallOp("getTodayTotal", Undef), CallOp("saveExpense", guess),
              SendOp(savedKind, guess)>>
       ELSE <<SendOp(invalidKind, [errors |-> validationErrors])>>

\* what handleTextMessage / handleImageMessage do with the adapter's guess
afterGuess(guess, savedKind, invalidKind) ==
    LET validationErrors == validateExpenseData(guess)
    IN IF Len(validationErrors) = 0
       THEN <<CallOp("saveExpense", guess), CallOp("getTodayTotal", Undef),
              SendOp(savedKind, guess)>>
       ELSE <<SendOp(invalidKind, [errors |-> validationErrors])>>

\* handleTextMessage, expense branch: groqService.parseTextExpense never
\* throws; its guess is validated and saved or reported
ParseTextExpense(d) ==
    /\ AtCall(d, "parseTextExpense")
    /\ \E answer \in ProviderAnswers(load) :
         dl' = [dl EXCEPT ![d] =
            LET expenseData == parseTextExpense(answer)
            IN [Return(dl[d], expenseData,
                       afterGuess(expenseData, "expense-saved", "validation-errors"))
                  EXCEPT !.provider = TRUE, !.answer = answer]]
    /\ proc' = processAfter(dl'[d])
    /\ UNCHANGED <<unit, env, load, store, users, expenses, budgets, nextId, hs>>

\* a generateInsights without the check of the empty list
GenerateInsightsAlways(d) ==
    /\ AtCall(d, "generateInsights")
    /\ \E answered \in BOOLEAN :
         dl' = [dl EXCEPT ![d] =
            [Return(dl[d], IF answered THEN Str("insights")
                           ELSE Str("Unable to generate insights at the moment."),
                    Tail(dl[d].script))
               EXCEPT !.provider = TRUE]]
    /\ proc' = processAfter(dl'[d])
    /\ UNCHANGED <<unit, env, load, store, users, expenses, budgets, nextId, hs>>

\* handleTextMessage, insights branch: generateInsights answers an empty
\* list itself, and turns a provider failure into a fixed text
GenerateInsights(d) ==
    /\ AtCall(d, "generateInsights")
    /\ \E answered \in BOOLEAN :
         dl' = [dl EXCEPT ![d] =
            IF dl[d].loc.n = 0
            THEN Return(dl[d], Str("No expenses found to analyze."), Tail(dl[d].script))
            ELSE [Return(dl[d], IF answered THEN Str("insights")
                            ELSE Str("Unable to generate insights at the moment."),
                         Tail(dl[d].script))
                    EXCEPT !.provider = TRUE]]
    /\ proc' = processAfter(dl'[d])
    /\ UNCHANGED <<unit, env, load, store, users, expenses, budgets, nextId, hs>>

\* handleImageMessage: whatsappService.downloadMedia rethrows its errors
DownloadMedia(d) ==
    /\ AtCall(d, "downloadMedia")
    /\ \E ok \in FaultsOf(load) :
         dl' = [dl EXCEPT ![d] =
            IF ok THEN Return(dl[d], Undef, Tail(dl[d].script)) ELSE Raise(dl[d], "transport")]
    /\ proc' = processAfter(dl'[d])
    /\ UNCHANGED <<unit, env, load, store, users, expenses, budgets, nextId, hs>>

\* handleImageMessage: geminiService.extractReceiptData never throws, but
\* validating its guess may
ExtractReceiptData(d) ==
    /\ AtCall(d, "extractReceiptData")
    /\ \E answer \in ProviderAnswers(load) :
         dl' = [dl EXCEPT ![d] =
            LET receiptData == extractReceiptData(answer)
            IN IF validateExpenseDataThrows(receiptData)
               THEN [Raise(dl[d], "type") EXCEPT !.provider = TRUE, !.answer = answer]
               ELSE [Return(dl[d], receiptData,
                            afterGuess(receiptData, "receipt-saved", "receipt-invalid"))
                       EXCEPT !.provider = TRUE, !.answer = answer]]
    /\ proc' = processAfter(dl'[d])
    /\ UNCHANGED <<unit, env, load, store, users, expenses, budgets, nextId, hs>>

Next ==
    \/ Startup
    \/ GetWebhook
    \/ \E d \in Slots : PostWebhook(d)
    \/ \E d \in Slots : NextMessage(d)
    \/ \E d \in Slots : CreateOrUpdateUser(d)
    \/ \E d \in Slots : MarkAsRead(d)
    \/ \E d \in Slots : SendMessage(d)
    \/ \E d \in Slots : SetBudget(d)
    \/ \E d \in Slots : InsertBudget(d)
    \/ \E d \in Slots : GetBudgetStatus(d)
    \/ \E d \in Slots : GetLastExpense(d)
    \/ \E d \in Slots : DeleteExpense(d)
    \/ \E d \in Slots : UpdateExpense(d)
    \/ \E d \in Slots : SearchExpenses(d)
    \/ \E d \in Slots : GetExpenses(d)
    \/ \E d \in Slots : SaveExpense(d)
    \/ \E d \in Slots : GetTodayTotal(d)
    \/ \E d \in Slots : ParseTextExpense(d)
    \/ \E d \in Slots : GenerateInsights(d)
    \/ \E d \in Slots : DownloadMedia(d)
    \/ \E d \in Slots : ExtractReceiptData(d)

Spec == Init /\ [][Next]_vars

\* a step of the asynchronous processing of slot d's delivery other than
\* the entry into the handler
ProcessingStep(d) ==
    \/ NextMessage(d)
    \/ CreateOrUpdateUser(d)
    \/ SendMessage(d)
    \/ SetBudget(d)
    \/ InsertBudget(d)
    \/ GetBudgetStatus(d)
    \/ GetLastExpense(d)
    \/ DeleteExpense(d)
    \/ UpdateExpense(d)
    \/ SearchExpenses(d)
    \/ GetExpenses(d)
    \/ SaveExpense(d)
    \/ GetTodayTotal(d)
    \/ ParseTextExpense(d)
    \/ GenerateInsights(d)
    \/ DownloadMedia(d)
    \/ ExtractReceiptData(d)

\* weak fairness of MarkAsRead(d), which is enabled exactly when the
\* delivery is at its markAsRead call
HandlerEntryFair(d) ==
    \/ []<>(~AtCall(d, "markAsRead"))
    \/ []<><<MarkAsRead(d)>>_vars

\* the event loop runs every continuation that is ready: a delivery whose
\* awaited call has settled goes on, and the process starts
FairSpec ==
    /\ Spec
    /\ WF_vars(Startup)
    /\ \A d \in Slots : WF_vars(ProcessingStep(d))
    /\ \A d \in Slots : HandlerEntryFair(d)

(***************************************************************************)
(* Direct calls of the Validator functions                                 *)
(***************************************************************************)

UnitPayloads == {"p1", "p2"}

UnitSecrets == {NoVal, "", SharedSecret, WrongSecret}

\* headers: absent, empty, no hash, a hash of the wrong length, the right
\* and a wrong HMAC with and without the prefix, another prefix, and text
\* after a second "="
UnitSignatures ==
    {NoVal, "", "sha256", "sha256=", "sha256=abc", "abc"}
    \cup {Sign(k, p) : k \in {SharedSecret, WrongSecret}, p \in UnitPayloads}
    \cup {HmacHex(SharedSecret, p) : p \in UnitPayloads}
    \cup {"sha1=" \o HmacHex(SharedSecret, p) : p \in UnitPayloads}
    \cup {Sign(SharedSecret, p) \o "=00" : p \in UnitPayloads}

Infinity == [k |-> "inf"]

UnitAmounts ==
    {Undef, NaNv, Infinity, Num(0 - 1), Num(0), Num(1), Num(250),
     Num(MaxAmount - 1), Num(MaxAmount), Num(MaxAmount + 1),
     Str(""), Str("abc"), Str("50"), Str("12abc"), Str(" 7"), Str("-5"), Str("0")}

UnitCategories ==
    {Undef, Num(5), Str(""), Str("food"), Str("Food"), Str("FOOD"), Str("fOoD"),
     Str("rent"), Str("INCOME"), Str("pets"), Str("Pets"), Str("foods"), Str("food ")}

\* a text of n characters
RECURSIVE Filler(_)
Filler(n) ==
    IF n = 0 THEN ""
    ELSE IF n = 1 THEN "x"
    ELSE Filler(n \div 2) \o Filler(n - (n \div 2))

UnitExpenseData ==
    {Undef} \cup
    {Guess(a, c, m, d, dt) :
        a \in {Undef, Num(0), Num(250), Str("abc")},
        c \in {Undef, Num(5), Str("food"), Str("Food"), Str("pets")},
        m \in {Undef, Str("cafe"), Str(Filler(MaxMerchantLen)), Str(Filler(MaxMerchantLen + 1))},
        d \in {Undef, Str("lunch"), Str(Filler(MaxDescriptionLen)), Str(Filler(MaxDescriptionLen + 1))},
        dt \in {Undef, Num(0), Num(5), Str("someday")}}

UnitInit ==
    /\ Init
    /\ env = BaseEnv
    /\ load = "probe"
    /\ store = "postgres"

Called(fn, args, out) ==
    /\ unit' = [fn |-> fn, args |-> args, out |-> out]
    /\ UNCHANGED <<env, load, store, proc, users, expenses, budgets, nextId, dl, hs>>

ValidateWebhookSignature ==
    \E payload \in UnitPayloads, signature \in UnitSignatures, secret \in UnitSecrets :
        LET r == validateWebhookSignature(payload, signature, secret)
        IN Called("validateWebhookSignature", <<payload, signature, secret>>,
                  IF r = "throws" THEN Thrown ELSE Ret(r = "true"))

ValidateAmount ==
    \E amount \in UnitAmounts :
        Called("validateAmount", <<amount>>, Ret(validateAmount(amount)))

ValidateCategory ==
    \E category \in UnitCategories :
        Called("validateCategory", <<category>>,
               IF validateCategoryThrows(category) THEN Thrown
               ELSE Ret(validateCategory(category)))

ValidateExpenseData ==
    \E expenseData \in UnitExpenseData :
        Called("validateExpenseData", <<expenseData>>,
               IF validateExpenseDataThrows(expenseData) THEN Thrown
               ELSE Ret(validateExpenseData(expenseData)))

UnitNext ==
    \/ ValidateWebhookSignature
    \/ ValidateAmount
    \/ ValidateCategory
    \/ ValidateExpenseData

UnitSpec == UnitInit /\ [][UnitNext]_vars

(***************************************************************************)
(* Properties of webhook ingestion                                         *)
(***************************************************************************)

Acknowledged(d) == dl[d].status = 200 /\ dl[d].body = "EVENT_RECEIVED"

Untouched(d) == dl[d].stage = "done" /\ ~dl[d].called /\ dl[d].replies = <<>>

\* C1: a delivery that passed the signature check with the expected object
\* is answered 200 EVENT_RECEIVED before its processing goes on: whenever it
\* is being processed, or any adapter, repository or transport call has been
\* made for it, the acknowledgement has already been sent.
C1_AckBeforeProcessing ==
    \A d \in Slots :
        (dl[d].stage = "processing" \/ dl[d].called) => Acknowledged(d)

C1_Witness ==
    \E d \in Slots :
        /\ env["NODE_ENV"] = "production"
        /\ dl[d].req.signature = Sign(SharedSecret, dl[d].req.raw)
        /\ dl[d].req.object = WABA
        /\ dl[d].stage = "processing"
        /\ dl[d].called
        /\ Len(dl[d].script) > 0
        /\ Acknowledged(d)

\* C2: once a delivery is accepted its response stays 200 EVENT_RECEIVED
\* whatever fails while its messages are processed; an error that leaves
\* processMessage is logged and the process keeps listening.
C2_FailuresNeverSurface ==
    \A d \in Slots :
        (dl[d].raised # {} \/ dl[d].logged # NoVal) =>
            Acknowledged(d) /\ proc = "listening"

C2_Witness ==
    \E d \in Slots :
        /\ dl[d].logged # NoVal
        /\ dl[d].stage = "done"
        /\ Acknowledged(d)

\* the header is missing, malformed, or is not sha256= followed by the HMAC
\* of the bytes received under the secret the platform signs with
BadSignature(req) ==
    req.signature = NoVal \/ req.signature # Sign(SharedSecret, req.raw)

\* C3: a delivery whose x-hub-signature-256 header is missing, malformed or
\* does not match the HMAC of the body under the shared secret is answered
\* 401 or 403 and nothing of it is processed.
C3_RejectsBadSignature ==
    \A d \in Slots :
        (dl[d].stage # "idle" /\ BadSignature(dl[d].req)) =>
            dl[d].status \in {401, 403} /\ Untouched(d)

\* C4 as stated: every delivery whose object is not the expected constant
\* is answered 404 and is not processed.
C4_ForeignObjectAlways404 ==
    \A d \in Slots :
        (dl[d].stage # "idle" /\ dl[d].req.object # WABA) =>
            dl[d].status = 404 /\ Untouched(d)

\* C4: a delivery whose object is not the expected constant is never
\* processed, and it is answered 404 when it passes the signature
\* middleware (the middleware answers first when it rejects).
C4_ForeignObjectNotProcessed ==
    \A d \in Slots :
        (dl[d].stage # "idle" /\ dl[d].req.object # WABA) =>
            /\ Untouched(d)
            /\ verifySignature(env, dl[d].req.signature, dl[d].req.body) = 0
                   => dl[d].status = 404

C4_Witness ==
    \E d \in Slots :
        /\ dl[d].stage = "done"
        /\ dl[d].req.object # WABA
        /\ dl[d].status = 404

\* C5: the handshake answers 200 with the challenge verbatim exactly when
\* the mode is subscribe and the token equals the configured verify token;
\* otherwise it answers 403 and does not echo the challenge.
C5_HandshakeIff ==
    hs.status # 0 =>
        LET match == hs.mode = "subscribe" /\ hs.token = env["WEBHOOK_VERIFY_TOKEN"]
        IN /\ match <=> (hs.status = 200 /\ hs.body = hs.challenge)
           /\ ~match => (hs.status = 403 /\ hs.body # hs.challenge)

C5_Witness ==
    /\ hs.status = 200
    /\ hs.mode = "subscribe"
    /\ hs.token = VerifyToken
    /\ hs.body = "c1"

\* C6: a handshake changes neither users, expenses nor budgets, and a
\* handshake with the mode, token and challenge of the previous one gets the
\* response of the previous one, whatever requests came in between.
C6_HandshakeIdempotent ==
    [][hs' # hs =>
          /\ UNCHANGED <<users, expenses, budgets>>
          /\ (hs.status # 0 /\ hs'.mode = hs.mode /\ hs'.token = hs.token
                /\ hs'.challenge = hs.challenge)
               => (hs'.status = hs.status /\ hs'.body = hs.body)]_vars

C6_Witness ==
    /\ hs.status = 200
    /\ users # {}
    /\ expenses # {}

(***************************************************************************)
(* Properties of the command dispatcher                                    *)
(***************************************************************************)

\* the first intent, in the documented order, whose pattern msgLower matches
documentedIntent(msgLower) ==
    IF StartsWith(msgLower, "set budget") THEN "budget-set"
    ELSE IF msgLower = "budget" \/ msgLower = "budgets" \/ Includes(msgLower, "budget status")
         THEN "budget-status"
    ELSE IF msgLower = "delete last" \/ msgLower = "undo" THEN "undo"
    ELSE IF StartsWith(msgLower, "edit last amount ")
            \/ StartsWith(msgLower, "edit last category ") THEN "edit-last"
    ELSE IF StartsWith(msgLower, "search ") THEN "search"
    ELSE IF \/ Includes(msgLower, "spent") \/ Includes(msgLower, "paid")
            \/ Includes(msgLower, "bought")
            \/ StartsWith(msgLower, "cab ") \/ StartsWith(msgLower, "uber ")
         THEN "expense"
    ELSE IF Includes(msgLower, "today") \/ Includes(msgLower, "week")
            \/ Includes(msgLower, "month") THEN "time-range"
    ELSE IF Includes(msgLower, "category") \/ Includes(msgLower, "categories")
         THEN "category-breakdown"
    ELSE IF Includes(msgLower, "insights") THEN "insights"
    ELSE IF Includes(msgLower, "help") \/ msgLower = "hi" \/ msgLower = "hello" THEN "help"
    ELSE "fallback"

\* the documented intent a branch of handleTextMessage belongs to
intentOfBranch(branch) ==
    CASE branch \in {"edit-amount", "edit-category"} -> "edit-last"
      [] branch \in {"today", "week", "month"} -> "time-range"
      [] OTHER -> branch

\* C7: a text message is dispatched to the first intent, in the order
\* budget-set, budget-status, undo, edit-last, search, expense, time-range,
\* category-breakdown, insights, help, fallback, whose pattern it matches.
C7_FirstMatchDispatch ==
    \A d \in Slots :
        (dl[d].msg.type = "text" /\ dl[d].intent # NoVal) =>
            intentOfBranch(dl[d].intent)
                = documentedIntent(Trim(ToLowerCase(dl[d].msg.body)))

RECURSIVE CountKinds(_, _)
CountKinds(replies, kinds) ==
    IF Len(replies) = 0 THEN 0
    ELSE (IF Head(replies).kind \in kinds THEN 1 ELSE 0) + CountKinds(Tail(replies), kinds)

ReplyKinds(d) == {dl[d].replies[i].kind : i \in 1..Len(dl[d].replies)}

\* C8 as stated: a message handled without an exception gets at most one
\* reply.
C8_AtMostOneReply ==
    \A d \in Slots : dl[d].raised = {} => Len(dl[d].replies) <= 1

\* C8: a message handled without an exception gets at most one reply that
\* is not a progress notice (a result or an error, never both), after at
\* most one progress notice, which comes first.
C8_AtMostOneFinalReply ==
    \A d \in Slots :
        dl[d].raised = {} =>
            /\ Len(dl[d].replies) - CountKinds(dl[d].replies, ProgressKinds) <= 1
            /\ CountKinds(dl[d].replies, ProgressKinds) <= 1
            /\ \A i \in 2..Len(dl[d].replies) : dl[d].replies[i].kind \notin ProgressKinds

C8_Witness ==
    \E d \in Slots :
        /\ dl[d].raised = {}
        /\ Len(dl[d].replies) = 2
        /\ dl[d].replies[1].kind = "processing"
        /\ dl[d].replies[2].kind = "expense-saved"

\* C9: an exception of a repository call, or one raised on an adapter's
\* result, is caught by a catch block of the handler or of processMessage,
\* which replies with a generic error text (unless the reply transport
\* fails too); it is never the error that reaches the .catch of the route
\* handler, and the process keeps listening.
C9_HandlerBoundary ==
    \A d \in Slots :
        (dl[d].raised \cap {"repository", "type"} # {}) =>
            /\ proc = "listening"
            /\ dl[d].logged \notin {"repository", "type"}
            /\ \/ Len(dl[d].script) > 0 /\ Head(dl[d].script).op = "send"
                    /\ Head(dl[d].script).kind \in ErrorKinds
               \/ ReplyKinds(d) \cap ErrorKinds # {}
               \/ "transport" \in dl[d].raised

C9_Witness ==
    \E d \in Slots :
        /\ "repository" \in dl[d].raised
        /\ "transport" \notin dl[d].raised
        /\ ReplyKinds(d) \cap ErrorKinds # {}
        /\ dl[d].stage = "done"

(***************************************************************************)
(* Properties of storage                                                   *)
(***************************************************************************)

\* C10: every stored expense has a positive amount and a category of the
\* fixed category set.
C10_StoredExpensesValid ==
    \A r \in expenses : r.amount > 0 /\ r.category \in CategorySet

\* the (user, category) keys of the monthly budgets
BudgetKeys == {<<b.user, b.category>> : b \in budgets}

\* slot d has confirmed a set-budget of key k to the sender
ConfirmedBudget(d, k) ==
    \E i \in 1..Len(dl[d].replies) :
        /\ dl[d].replies[i].kind = "budget-set"
        /\ dl[d].msg.from = k[1]
        /\ dl[d].replies[i].data.category = k[2]

\* C11: whatever set-budget operations have run, the budgets table holds
\* at most one row for a (user, category, period) key.
C11_OneBudgetPerKey ==
    \A k \in BudgetKeys : Cardinality(BudgetsOf(k[1], k[2], "monthly")) <= 1

\* C12: once a set-budget of a key has been confirmed, every state a
\* concurrent request can read holds exactly one row of that key, also
\* while another set-budget of the key is in progress: never zero rows,
\* never two.
C12_UpsertAtomic ==
    \A d \in Slots, u \in Users, c \in CategorySet :
        ConfirmedBudget(d, <<u, c>>) =>
            Cardinality(BudgetsOf(u, c, "monthly")) = 1

\* slot d's awaited saveExpense call succeeds in this step
SaveSucceeds(d) ==
    /\ AtCall(d, "saveExpense")
    /\ nextId' = nextId + 1

\* row r holds the amount, category and merchant that record g carries
SameFields(g, r) ==
    /\ r.amount = ToNumber(g.amount).n
    /\ ~Falsy(g.category) => r.category = g.category.s
    /\ ~Falsy(g.merchant) => r.merchant = g.merchant.s

\* the rows that getTodayExpenses(user), run right after the step, returns
\* for the id this step's saveExpense returned
SavedToday(d) == {r \in (getTodayExpenses(Caller(d)))' : r.id = nextId}

TotalReturns(d) ==
    /\ AtCall(d, "getTodayTotal")
    /\ dl'[d].script = Tail(dl[d].script)

\* the calls to function fn in a script
CallsTo(script, fn) ==
    {i \in 1..Len(script) : script[i].op = "call" /\ script[i].fn = fn}

\* the save of an expense text: the first and only saveExpense call of the
\* message, adding one row of the sender with the guess's amount and category
PersistsOne(d) ==
    /\ dl[d].loc = Arg(d)
    /\ Len(validateExpenseData(Arg(d))) = 0
    /\ CallsTo(Tail(dl[d].script), "saveExpense") = {}
    /\ \E r \in expenses' \ expenses :
          /\ expenses' = expenses \cup {r}
          /\ r.user = Caller(d)
          /\ r.amount = ToNumber(Arg(d).amount).n
          /\ r.category = Arg(d).category.s

\* the total is read when saveExpense has returned the id of the new row
ReadAfterSave(d) ==
    /\ dl[d].loc.k = "num"
    /\ dl[d].loc.n < nextId
    /\ dl'[d].loc = Num(getTodayTotal(Caller(d)))

\* the confirmations of expense texts carry a validated guess and a total
ConfirmationsCarryGuess ==
    \A d \in Slots : \A i \in 1..Len(dl[d].replies) :
        dl[d].replies[i].kind = "expense-saved" =>
            /\ Len(validateExpenseData(dl[d].replies[i].data)) = 0
            /\ dl[d].replies[i].res.k = "num"

NullParse(d) ==
    /\ dl[d].intent = "expense"
    /\ dl[d].answer # NoAnswer
    /\ parseTextExpense(dl[d].answer) = Undef

\* slot d sends or has sent a reply of kind kind
Replies(d, kind) ==
    \/ kind \in ReplyKinds(d)
    \/ /\ dl[d].script # <<>>
       /\ Head(dl[d].script).op = "send"
       /\ Head(dl[d].script).kind = kind

\* C15: when the text extractor returns null for an expense text, nothing
\* is persisted and the sender gets the 'try rephrasing' guidance, not a
\* list of validation errors.
C15_NullParseGetsGuidance ==
    \A d \in Slots :
        NullParse(d) =>
            /\ ~Replies(d, "validation-errors")
            /\ CallsTo(dl[d].script, "saveExpense") = {}

\* the vision provider has answered amount 0 for the image slot d handles
ZeroAmountReceipt(d) ==
    /\ dl[d].intent = "image"
    /\ dl[d].answer.k = "obj"
    /\ dl[d].answer.amount = Num(0)

\* the error lists slot d has sent for its message
ErrorLists(d) ==
    {dl[d].replies[i].data.errors :
        i \in {j \in 1..Len(dl[d].replies) : dl[d].replies[j].kind = "receipt-invalid"}}

\* error e is in list errors
Lists(errors, e) == \E i \in 1..Len(errors) : errors[i] = e

Tokens(messageText) == Split(Trim(ToLowerCase(messageText)), " ")

\* the message carries a category token and an amount token that pass
\* validateCategory and validateAmount
BudgetTokensValid(messageText) ==
    /\ Len(Tokens(messageText)) >= 4
    /\ validateCategory(PartAt(Tokens(messageText), 2))
    /\ validateAmount(ParseFloat(PartAt(Tokens(messageText), 3)))

\* slot d takes a step of the handling of its message
Steps(d) == Running(d) /\ dl'[d] # dl[d]

\* the step in which the upsert of slot d's set-budget completes
UpsertCompletes(d) ==
    /\ \/ AtCall(d, "setBudget") /\ store = "postgres"
       \/ AtCall(d, "insertBudget")
    /\ dl'[d].script = Tail(dl[d].script)

QueryTerm(messageText) == Trim(Slice(Trim(messageText), 7))

\* C18: a search command whose query term is shorter than 2 characters is
\* rejected with the 'too short' reply, and its handler makes no call to
\* the repository (the handler awaits nothing but that one reply).
C18_ShortSearchRejected ==
    [][\A d \in Slots :
          (/\ dl[d].intent = "search"
           /\ Len(QueryTerm(dl[d].msg.body)) < 2
           /\ Steps(d)) =>
              /\ dl[d].script # <<>> =>
                    Head(dl[d].script) = SendOp("search-too-short", Undef)
              /\ dl'[d].stage = "done" =>
                    ReplyKinds(d)' = {"search-too-short"}]_vars

\* the fixed text generateInsights answers for an empty list
NoExpensesText == Str("No expenses found to analyze.")

\* C19: when the month's window of the sender holds no expense, the
\* insights reply carries the fixed 'no expenses' text and the summarizer
\* provider is never invoked for the message.
C19_NoExpensesNoSummarizer ==
    [][\A d \in Slots :
          (/\ dl[d].intent = "insights"
           /\ Steps(d)
           /\ \/ AtCall(d, "generateInsights") /\ dl[d].loc = Num(0)
              \/ dl[d].loc = NoExpensesText) =>
              /\ dl'[d].loc = NoExpensesText
              /\ ~dl'[d].provider
              /\ dl'[d].stage = "done" =>
                    \/ "transport" \in dl'[d].raised
                    \/ \E i \in 1..Len(dl'[d].replies) :
                          /\ dl'[d].replies[i].kind = "insights"
                          /\ dl'[d].replies[i].res = NoExpensesText]_vars

C19_Witness ==
    \E d \in Slots : \E i \in 1..Len(dl[d].replies) :
        /\ dl[d].intent = "insights"
        /\ dl[d].stage = "done"
        /\ getExpenses(Caller(d), "month") = {}
        /\ dl[d].replies[i].kind = "insights"
        /\ dl[d].replies[i].res = NoExpensesText
        /\ ~dl[d].provider

\* slot d's awaited deleteExpense call returns in this step
DeleteReturns(d) ==
    /\ AtCall(d, "deleteExpense")
    /\ dl'[d].script = Tail(dl[d].script)

\* slot d's awaited getLastExpense call returns in this step
LastReturns(d) ==
    /\ AtCall(d, "getLastExpense")
    /\ dl'[d].raised = dl[d].raised

\* C20: an undo of user u who has an expense removes exactly u's most
\* recently created expense, the one it echoes, and changes no other
\* expense; an undo of a user without expenses reports nothing-to-delete
\* and changes nothing.
C20_UndoRemovesLast ==
    [][\A d \in Slots :
          (dl[d].intent = "undo" /\ Steps(d)) =>
              /\ DeleteReturns(d) =>
                    /\ Arg(d) \in getLastExpense(Caller(d))
                    /\ expenses' = expenses \ {Arg(d)}
                    /\ Head(dl'[d].script) = SendOp("deleted", Arg(d))
              /\ ~DeleteReturns(d) => expenses' = expenses
              /\ (LastReturns(d) /\ getLastExpense(Caller(d)) = {}) =>
                    dl'[d].script = <<SendOp("nothing-to-delete", Undef)>>
              /\ (LastReturns(d) /\ getLastExpense(Caller(d)) # {}) =>
                    CallsTo(dl'[d].script, "deleteExpense") = {1}]_vars

(***************************************************************************)
(* Properties of the edit-last commands                                    *)
(***************************************************************************)

\* the new value an edit-last command carries, and whether it is valid
EditValue(messageText) == PartAt(Tokens(messageText), 3)

EditValid(intent, messageText) ==
    IF intent = "edit-amount"
    THEN validateAmount(ParseFloat(EditValue(messageText)))
    ELSE validateCategory(EditValue(messageText))

\* slot d's awaited updateExpense call returns in this step
UpdateReturns(d) ==
    /\ AtCall(d, "updateExpense")
    /\ dl'[d].script = Tail(dl[d].script)

\* row r with the field the command of intent names set to its value
Edited(r, intent, messageText) ==
    IF intent = "edit-amount"
    THEN [r EXCEPT !.amount = ParseFloat(EditValue(messageText)).n]
    ELSE [r EXCEPT !.category = EditValue(messageText).s]

ChangesIn(body) ==
    UNION {{body.entry[i].changes[j] : j \in 1..Len(body.entry[i].changes)} :
              i \in 1..Len(body.entry)}

\* the messages an envelope carries in changes of field 'messages'
MessagesIn(body) ==
    UNION {{c.messages[i] : i \in 1..Len(c.messages)} :
              c \in {x \in ChangesIn(body) : x.field = "messages"}}

\* C22: the messages handled for a delivery are messages of its changes of
\* field 'messages'; what it carries in changes of another field, and the
\* status updates of a messages change, lead to no handling: a delivery that
\* carries nothing else gets no reply and makes no call.
C22_OnlyMessagesChangesHandled ==
    \A d \in Slots :
        dl[d].stage # "idle" =>
            /\ dl[d].msg # NoMsg => dl[d].msg \in MessagesIn(dl[d].req.body)
            /\ \A i \in 1..Len(dl[d].queue) :
                  dl[d].queue[i] \in MessagesIn(dl[d].req.body)
            /\ MessagesIn(dl[d].req.body) = {} =>
                  /\ ~dl[d].called
                  /\ dl[d].replies = <<>>
                  /\ dl[d].script = <<>>

C22_Witness ==
    \E d \in Slots :
        /\ Acknowledged(d)
        /\ Untouched(d)
        /\ \E c \in ChangesIn(dl[d].req.body) :
              c.field # "messages" /\ Len(c.messages) > 0
        /\ \E c \in ChangesIn(dl[d].req.body) :
              c.field = "messages" /\ Len(c.statuses) > 0

(***************************************************************************)
(* Properties of the extraction adapters                                   *)
(***************************************************************************)

\* what the adapter slot d has called returned for the provider's answer
AdapterResult(d) ==
    IF dl[d].intent = "image" THEN extractReceiptData(dl[d].answer)
    ELSE parseTextExpense(dl[d].answer)

\* the provider failed, answered no JSON object, or answered an amount
\* that is not a positive number
UnusableAnswer(answer) ==
    \/ answer.k # "obj"
    \/ ToNumber(answer.amount).k # "num"
    \/ ToNumber(answer.amount).n <= 0

\* C23: the adapters fail closed: for an answer that is a failure, is not
\* parseable or carries a non-numeric or non-positive amount they return
\* null, never a record with such an amount.
C23_AdaptersFailClosed ==
    \A d \in Slots :
        (dl[d].answer # NoAnswer /\ UnusableAnswer(dl[d].answer)) =>
            AdapterResult(d) = Undef

(***************************************************************************)
(* Properties of the Validator functions                                   *)
(***************************************************************************)

SignatureChecked == unit.fn = "validateWebhookSignature"

\* the signature a header carries: the text after the sha256= prefix, or
\* the whole header when it has no prefix
HeaderSignature(header) ==
    IF StartsWith(header, "sha256=") THEN Slice(header, 7) ELSE header

HeaderMatches(payload, header, secret) ==
    /\ ~Unset(header)
    /\ ~Unset(secret)
    /\ HeaderSignature(header) = HmacHex(secret, payload)

\* C24: the signature check never throws, and it returns true only when the
\* signature carried by the header equals the HMAC of the payload under the
\* secret: a missing or malformed header (a hash of the wrong length
\* included), a missing secret and a signature that does not match all get
\* false.
C24_SignatureCheckFailsClosed ==
    SignatureChecked =>
        /\ unit.out # Thrown
        /\ unit.out = Ret(HeaderMatches(unit.args[1], unit.args[2], unit.args[3]))

\* the part of C24 that holds: no input makes the check throw, and a header
\* of the wrong length, a missing header or secret, and a wrong HMAC get false
C24_NeverThrows ==
    SignatureChecked =>
        /\ unit.out # Thrown
        /\ (unit.out = Ret(TRUE) =>
                /\ ~Unset(unit.args[3])
                /\ StartsWith(HeaderSignature(unit.args[2]),
                              HmacHex(unit.args[3], unit.args[1])))

ExpenseDataChecked ==
    /\ unit.fn = "validateExpenseData"
    /\ unit.out.k = "ret"

\* the place of an error in the documented order
ErrorRank(e) ==
    CASE e = "Expense data is required" -> 0
      [] e = "Invalid amount" -> 1
      [] e = "Invalid category" -> 2
      [] e = "Invalid date" -> 3
      [] e = "Description too long" -> 4
      [] e = "Merchant name too long" -> 5
      [] OTHER -> 6

Absent(x) == x.k = "undef" \/ (x.k = "str" /\ x.s = "")

\* every check of a record passes: the amount is valid, a category or date
\* that is present is valid, description and merchant are short enough
EveryCheckPasses(expenseData) ==
    /\ expenseData.k = "obj"
    /\ validateAmount(expenseData.amount)
    /\ Absent(expenseData.category) \/ validateCategory(expenseData.category)
    /\ Absent(expenseData.date) \/ validateDate(expenseData.date)
    /\ StrLen(expenseData.description) <= MaxDescriptionLen
    /\ StrLen(expenseData.merchant) <= MaxMerchantLen

\* C25: the list validateExpenseData returns is in the fixed order amount,
\* category, date, description length, merchant length, each error at most
\* once; a record without a category gets no category error; and the list is
\* empty exactly when every check passes.
C25_ErrorsInFixedOrder ==
    ExpenseDataChecked =>
        LET expenseData == unit.args[1]
            errors == unit.out.v
        IN /\ \A i, j \in 1..Len(errors) :
                  i < j => ErrorRank(errors[i]) < ErrorRank(errors[j])
           /\ \A i \in 1..Len(errors) : ErrorRank(errors[i]) <= 5
           /\ (expenseData.k = "obj" /\ Absent(expenseData.category))
                  => ~Lists(errors, "Invalid category")
           /\ (errors = <<>>) <=> EveryCheckPasses(expenseData)

\* a record failing all five checks gets the five errors
C25_Witness ==
    /\ ExpenseDataChecked
    /\ unit.args[1].k = "obj"
    /\ unit.out.v = <<"Invalid amount", "Invalid category", "Invalid date",
                      "Description too long", "Merchant name too long">>

AmountChecked == unit.fn = "validateAmount"

\* C26 as stated: validateAmount(a) is true if and only if a is a finite
\* number with 0 < a < 10,000,000; every value that is not a number is
\* rejected.
C26_ValidIffNumberInRange ==
    AmountChecked =>
        LET a == unit.args[1]
        IN unit.out = Ret(a.k = "num" /\ 0 < a.n /\ a.n < 10000000)

\* the number written at the start of a text after its leading blanks, if
\* any: an optional sign and then decimal digits
LeadingNumber(text) ==
    LET t == TrimStart(text)
        sign == IF t # "" /\ Head(t) \in {"-", "+"} THEN 1 ELSE 0
        digits == {n \in 0..(Len(t) - sign) :
                      \A i \in (sign + 1)..(sign + n) : DigitVal(SubSeq(t, i, i)) >= 0}
        n == CHOOSE m \in digits : \A o \in digits : o <= m
        RECURSIVE Value(_)
        Value(k) == IF k = 0 THEN 0 ELSE 10 * Value(k - 1) + DigitVal(SubSeq(t, sign + k, sign + k))
    IN IF n = 0 THEN NaNv
       ELSE Num(IF sign = 1 /\ Head(t) = "-" THEN 0 - Value(n) ELSE Value(n))

\* C26, amended: validateAmount(a) is true if and only if a is a number, or
\* a text that starts (after leading blanks) with a number, whose value n
\* satisfies
\* 0 < n < 10,000,000; zero, negative values, the ceiling itself, infinity,
\* NaN, absent values and texts that start with no number are rejected.
C26_ValidIffParsesInRange ==
    AmountChecked =>
        LET a == unit.args[1]
            n == IF a.k = "str" THEN LeadingNumber(a.s) ELSE a
        IN unit.out = Ret(n.k = "num" /\ 0 < n.n /\ n.n < 10000000)

\* a text that starts with a number in range is accepted
C26_Witness ==
    /\ AmountChecked
    /\ unit.args[1] = Str("12abc")
    /\ unit.out = Ret(TRUE)

CategoryChecked ==
    /\ unit.fn = "validateCategory"
    /\ unit.args[1].k = "str"

\* the fixed category set, written out
FixedCategories ==
    {"food", "transport", "shopping", "entertainment", "healthcare",
     "utilities", "other", "rent", "salary", "income"}

\* C27: for every category string c, validateCategory(c) is true if and only
\* if the lower-cased c is in the fixed category set, and two strings that
\* differ only in letter case get the same result.
C27_CategoryCaseInsensitive ==
    [][CategoryChecked' =>
          /\ unit'.out = Ret(ToLowerCase(unit'.args[1].s) \in FixedCategories)
          /\ (CategoryChecked
                  /\ ToLowerCase(unit.args[1].s) = ToLowerCase(unit'.args[1].s))
                 => unit'.out = unit.out]_vars

\* an upper-case spelling of a member is accepted
C27_Witness ==
    /\ CategoryChecked
    /\ unit.args[1] = Str("FOOD")
    /\ unit.out = Ret(TRUE)

(***************************************************************************)
(* Properties of the process                                               *)
(***************************************************************************)

\* a value the startup checks require is unset: one of the five tokens and
\* keys, or the app secret in production
MandatoryMissing ==
    \/ \E v \in {"WEBHOOK_VERIFY_TOKEN", "META_ACCESS_TOKEN", "META_PHONE_NUMBER_ID",
                 "GEMINI_API_KEY", "GROQ_API_KEY"} : Unset(env[v])
    \/ env["NODE_ENV"] = "production" /\ Unset(env["META_APP_SECRET"])

\* C28: the process leaves startup by exiting when a mandatory configuration
\* value is missing and by listening otherwise, so it never accepts traffic
\* with one missing; and once it listens no step of a webhook, handler,
\* provider or transport, failing or not, ends it.
C28_FailFastThenStayUp ==
    [][/\ (proc = "starting" /\ proc' # "starting")
              => proc' = (IF MandatoryMissing THEN "exited" ELSE "listening")
       /\ proc = "listening" => proc' = "listening"
       /\ proc = "exited" => proc' = "exited"]_vars

\* a delivery whose processing was rejected, logged by the .catch, with the
\* process still listening
C28_Witness ==
    /\ proc = "listening"
    /\ ~MandatoryMissing
    /\ \E d \in Slots : dl[d].stage = "done" /\ dl[d].raised # {} /\ dl[d].logged # NoVal

(***************************************************************************)
(* Properties of the users table                                           *)
(***************************************************************************)

\* the handling of slot d's current message has ended
Processed(d) ==
    /\ dl[d].stage \in {"processing", "done"}
    /\ dl[d].msg # NoMsg
    /\ dl[d].script = <<>>

Owned ==
    /\ \A r \in expenses : r.user \in users
    /\ \A b \in budgets : b.user \in users

UpsertReturns(d) ==
    /\ AtCall(d, "createOrUpdateUser")
    /\ dl'[d].script = Tail(dl[d].script)

UpsertFails(d) ==
    /\ AtCall(d, "createOrUpdateUser")
    /\ dl'[d].raised # dl[d].raised

BatchMessages == UNION {MessagesIn(b) : b \in BatchesOf("faults")}

\* message m of slot d's accepted delivery has not been taken yet
Waiting(d, m) ==
    /\ dl[d].stage = "processing"
    /\ \E i \in 1..Len(dl[d].queue) : dl[d].queue[i] = m

\* processMessage has been called for message m of slot d's delivery
InHand(d, m) ==
    /\ dl[d].stage = "processing"
    /\ dl[d].msg = m

\* C30: every message of an accepted delivery is eventually handed to
\* processMessage, whatever happened to the messages before it in the same
\* delivery, a failure of the transport while it sends an error reply
\* included.
C30_EveryMessageDispatched ==
    \A d \in Slots : \A m \in BatchMessages : Waiting(d, m) ~> InHand(d, m)

(***************************************************************************)
(* Properties of the budget-status reply                                   *)
(***************************************************************************)

\* the step in which slot d's getBudgetStatus call returns rows
StatusReturns(d) ==
    /\ AtCall(d, "getBudgetStatus")
    /\ dl'[d] # dl[d]
    /\ "repository" \notin (dl'[d].raised \ dl[d].raised)

\* C31: a budget-status query whose repository call returned renders, for
\* every budgeted category and every spent and limit, one block with the
\* rounded percent consumed and a bar of exactly 10 segments, none of them
\* negative in number; spending above the budget makes nothing fail.
C31_StatusAlwaysRendered ==
    [][\A d \in Slots :
          StatusReturns(d) =>
              /\ dl'[d].raised = dl[d].raised
              /\ dl'[d].script # <<>>
              /\ Head(dl'[d].script).op = "send"
              /\ Head(dl'[d].script).kind \in {"budget-status", "budget-none"}
              /\ Head(dl'[d].script).kind = "budget-status" =>
                    \A b \in Head(dl'[d].script).data.blocks :
                        /\ b.filled >= 0
                        /\ b.empty >= 0
                        /\ b.filled + b.empty = 10]_vars

(***************************************************************************)
(* Properties of the category breakdown                                    *)
(***************************************************************************)

\* slot d's message is a text that asks for the category breakdown
AsksBreakdown(d) ==
    /\ dl[d].msg.type = "text"
    /\ \/ Includes(Trim(ToLowerCase(dl[d].msg.body)), "category")
       \/ Includes(Trim(ToLowerCase(dl[d].msg.body)), "categories")

\* C32: a text message containing 'category' or 'categories' that matches
\* no earlier intent is dispatched to the category breakdown (per-category
\* totals of the last 30 days, largest first) and is never answered with
\* the fallback 'didn't understand' message.
C32_BreakdownAnswered ==
    \A d \in Slots :
        (AsksBreakdown(d) /\ dl[d].intent # NoVal) =>
            /\ "fallback" \notin ReplyKinds(d)
            /\ documentedIntent(Trim(ToLowerCase(dl[d].msg.body))) = "category-breakdown"
                   => dl[d].intent = "category-breakdown"

(***************************************************************************)
(* Properties of redelivery                                                *)
(***************************************************************************)

\* two rows that differ in nothing but their id and creation time
Duplicates(r1, r2) ==
    /\ r1.id # r2.id
    /\ [r1 EXCEPT !.id = 0, !.created = 0] = [r2 EXCEPT !.id = 0, !.created = 0]

\* C33: deliveries are not deduplicated: every save of an accepted
\* delivery's expense adds one record, also when the sender already has a
\* record with the same content from an earlier delivery of the same
\* payload, so the same payload delivered twice leaves two records.
C33_RedeliveryStoresTwice ==
    [][\A d \in Slots :
          SaveSucceeds(d) =>
              /\ Cardinality(expenses') = Cardinality(expenses) + 1
              /\ \E r \in expenses' \ expenses :
                    r.user = Caller(d) /\ SameFields(Arg(d), r)]_vars

\* the same payload was accepted in both slots and each left its record
C33_Witness ==
    /\ dl[1].req = dl[2].req
    /\ dl[1].msg = dl[2].msg
    /\ \A d \in Slots : "expense-saved" \in ReplyKinds(d)
    /\ \E r1, r2 \in expenses : r1.user = Caller(1) /\ Duplicates(r1, r2)

(***************************************************************************)
(* Properties of concurrent undo commands                                  *)
(***************************************************************************)

\* C34: every 'Deleted last expense' confirmation stands for one expense
\* record removed: the step after which an undo sends its confirmation, the
\* return of its delete, removes one record, also when another delivery of
\* the same user is processing an undo at the same time.
C34_ConfirmationsMatchDeletions ==
    [][\A d \in Slots :
          (dl[d].intent = "undo" /\ DeleteReturns(d)) =>
              /\ Head(dl'[d].script).kind = "deleted"
              /\ Cardinality(expenses') = Cardinality(expenses) - 1]_vars

(***************************************************************************)
(* Properties of the separation of users                                   *)
(***************************************************************************)

\* C35: a step of the handling of a message from sender u never creates,
\* changes or deletes an expense or a budget of another user: the records
\* of every other user are the same before and after it, so they are the
\* same after any sequence of messages from u.
C35_OtherUsersUntouched ==
    [][\A d \in Slots :
          Steps(d) =>
              /\ {r \in expenses' : r.user # dl[d].msg.from}
                     = {r \in expenses : r.user # dl[d].msg.from}
              /\ {b \in budgets' : b.user # dl[d].msg.from}
                     = {b \in budgets : b.user # dl[d].msg.from}]_vars

\* a sender whose expense was saved while another user has an expense and a
\* budget
C35_Witness ==
    \E d \in Slots :
        /\ "expense-saved" \in ReplyKinds(d)
        /\ \E r \in expenses : r.user = dl[d].msg.from
        /\ \E r \in expenses : r.user # dl[d].msg.from
        /\ \E b \in budgets : b.user # dl[d].msg.from

(***************************************************************************)
(* Properties of the signature over the raw body                           *)
(***************************************************************************)

\* the middleware verifies signatures: it is not switched off for
\* development and the shared secret is configured
Verifying ==
    /\ ~(env["NODE_ENV"] = "development" /\ env["SKIP_SIGNATURE_VERIFICATION"] = "true")
    /\ env["META_APP_SECRET"] = SharedSecret

\* the middleware let slot d's delivery through to the route handler
PassedMiddleware(d) == dl[d].status \notin {401, 403, 500}

\* C36: where signatures are verified, a delivery passes the signature
\* check exactly when its header is sha256= followed by the HMAC-SHA256 of
\* the raw bytes of the request body, as received, under the shared secret.
C36_SignatureOverRawBytes ==
    \A d \in Slots :
        (Verifying /\ dl[d].stage # "idle") =>
            (PassedMiddleware(d) <=> dl[d].req.signature = Sign(SharedSecret, dl[d].req.raw))

(***************************************************************************)
(* Properties of a deployment without a verify token                       *)
(***************************************************************************)

NoVerifyToken == Unset(env["WEBHOOK_VERIFY_TOKEN"])

\* C37 as stated: when no verify token is configured the service answers
\* handshake requests, and answers them 403, never 200, a subscribe request
\* without a token parameter included.
C37_NoTokenAnswers403 ==
    NoVerifyToken =>
        /\ proc # "exited"
        /\ hs.status \in {0, 403}

\* C37, amended: when no verify token is configured the process exits at
\* startup and never listens, so no handshake request succeeds: none is
\* answered at all, with 200 or otherwise.
C37_NoTokenNoHandshake ==
    NoVerifyToken =>
        /\ proc \in {"starting", "exited"}
        /\ hs = NoHandshake

\* a deployment without a verify token after its startup checks
C37_Witness ==
    /\ NoVerifyToken
    /\ proc = "exited"
    /\ hs = NoHandshake

====
